---------------------------- MODULE Spec2Model ----------------------------
(***************************************************************************)
(* A model of the piplapis data model: the Field variants of               *)
(* piplapis/data/fields.py, the scalar codecs of piplapis/data/utils.py     *)
(* and the containers (FieldsContainer, Relationship, Source, Person) of   *)
(* piplapis/data/containers.py, with their dict encoding and decoding.     *)
(*                                                                         *)
(* Python values are tagged records, so that values of different Python    *)
(* types can be compared and collected in one set:                         *)
(*   None      [t |-> "none"]                                              *)
(*   bool      [t |-> "bool", b |-> TRUE]                                  *)
(*   int       [t |-> "int",  i |-> 7]                                     *)
(*   float     [t |-> "float", f |-> 7]            (tenths: 0.7)           *)
(*   str       [t |-> "str",  s |-> <<"A", "l">>]  (a sequence of chars)   *)
(*   date      [t |-> "date", y, m, d]                                     *)
(*   datetime  [t |-> "datetime", y, m, d, hh, mi, ss]                     *)
(*   dict      [t |-> "dict", d |-> a function from keys to values]        *)
(*   list      [t |-> "list", l |-> a sequence of values]                  *)
(*   DateRange [t |-> "DateRange", start, end]                             *)
(* A dict key is the pair <<prefix, name>> for the Python string           *)
(* prefix + name, with prefix "@" or "".                                   *)
(* A raised exception is the record [exc |-> <its class name>].            *)
(***************************************************************************)
EXTENDS Integers, Sequences, FiniteSets, TLC

(***************************************************************************)
(* Python values                                                           *)
(***************************************************************************)
None == [t |-> "none"]

PyBool(b) == [t |-> "bool", b |-> b]

PyInt(i) == [t |-> "int", i |-> i]

PyStr(s) == [t |-> "str", s |-> s]

\* A float, in tenths: PyFloat(7) is 0.7.
PyFloat(f) == [t |-> "float", f |-> f]

Date(y, m, d) == [t |-> "date", y |-> y, m |-> m, d |-> d]

DateTime(y, m, d, hh, mi, ss) ==
    [t |-> "datetime", y |-> y, m |-> m, d |-> d, hh |-> hh, mi |-> mi, ss |-> ss]

PyDict(d) == [t |-> "dict", d |-> d]

PyList(l) == [t |-> "list", l |-> l]

Exc(name) == [exc |-> name]

IsExc(x) == "exc" \in DOMAIN x

EmptyDict == [k \in {} |-> None]

Key(prefix, name) == <<prefix, name>>

\* d.get(key) of a Python dict: None when the key is absent.
DictGet(d, k) == IF k \in DOMAIN d THEN d[k] ELSE None

\* d.update(e): the keys of e override those of d.
DictUpdate(d, e) ==
    [k \in DOMAIN d \cup DOMAIN e |-> IF k \in DOMAIN e THEN e[k] ELSE d[k]]

\* bool(v) of a Python value.
Truthy(v) ==
    CASE v.t = "none" -> FALSE
      [] v.t = "bool" -> v.b
      [] v.t = "int" -> v.i # 0
      [] v.t = "float" -> v.f # 0
      [] v.t = "str" -> Len(v.s) > 0
      [] v.t = "dict" -> DOMAIN v.d # {}
      [] v.t = "list" -> Len(v.l) > 0
      [] OTHER -> TRUE

\* Python's `a or b`: a when a is truthy, else b.
PyOr(a, b) == IF Truthy(a) THEN a ELSE b

\* Python's `a and b`: a when a is falsy, else b.
PyAnd(a, b) == IF Truthy(a) THEN b ELSE a

(***************************************************************************)
(* Characters and strings                                                  *)
(***************************************************************************)
DigitChars == <<"0", "1", "2", "3", "4", "5", "6", "7", "8", "9">>

UpperChars == <<"A", "B", "C", "D", "E", "F", "G", "H", "I", "J", "K", "L", "M",
                "N", "O", "P", "Q", "R", "S", "T", "U", "V", "W", "X", "Y", "Z">>

LowerChars == <<"a", "b", "c", "d", "e", "f", "g", "h", "i", "j", "k", "l", "m",
                "n", "o", "p", "q", "r", "s", "t", "u", "v", "w", "x", "y", "z">>

Range(s) == {s[i] : i \in DOMAIN s}

IsDigit(c) == c \in Range(DigitChars)

IsUpper(c) == c \in Range(UpperChars)

IsLower(c) == c \in Range(LowerChars)

\* str.isalpha / str.isalnum of one character.
IsAlpha(c) == IsUpper(c) \/ IsLower(c)

IsAlnum(c) == IsAlpha(c) \/ IsDigit(c)

IndexIn(seq, c) == CHOOSE i \in DOMAIN seq : seq[i] = c

LowerChar(c) == IF IsUpper(c) THEN LowerChars[IndexIn(UpperChars, c)] ELSE c

UpperChar(c) == IF IsLower(c) THEN UpperChars[IndexIn(LowerChars, c)] ELSE c

\* str.lower / str.upper
Lower(s) == [i \in DOMAIN s |-> LowerChar(s[i])]

Upper(s) == [i \in DOMAIN s |-> UpperChar(s[i])]

\* str.title: a letter that follows a non-letter is upper-cased, any other
\* letter is lower-cased.
Title(s) ==
    [i \in DOMAIN s |->
        IF i = 1 \/ ~IsAlpha(s[i - 1]) THEN UpperChar(s[i]) ELSE LowerChar(s[i])]

\* str.replace(a, b) for single characters a and b.
ReplaceChar(s, a, b) == [i \in DOMAIN s |-> IF s[i] = a THEN b ELSE s[i]]

\* str.strip: the string without its leading and trailing white space.
Strip(s) ==
    LET keep == {i \in DOMAIN s : s[i] \notin {" ", "\t", "\n"}}
    IN  IF keep = {} THEN <<>>
        ELSE LET lo == CHOOSE i \in keep : \A j \in keep : i <= j
                 hi == CHOOSE i \in keep : \A j \in keep : j <= i
             IN  SubSeq(s, lo, hi)

\* utils.alpha_chars / utils.alnum_chars
alpha_chars(s) == SelectSeq(s, IsAlpha)

alnum_chars(s) == SelectSeq(s, IsAlnum)

(***************************************************************************)
(* Dates: datetime.date, datetime.datetime and the codecs of utils.py      *)
(***************************************************************************)
IsLeap(y) == (y % 4 = 0 /\ y % 100 # 0) \/ y % 400 = 0

DaysInMonth(y, m) ==
    IF m = 2 THEN (IF IsLeap(y) THEN 29 ELSE 28)
    ELSE IF m \in {4, 6, 9, 11} THEN 30 ELSE 31

\* The decimal digits of n, zero-padded to `width` characters ("%0<width>d").
RECURSIVE Digits(_, _)
Digits(n, width) ==
    IF width = 0 THEN <<>>
    ELSE Append(Digits(n \div 10, width - 1), DigitChars[(n % 10) + 1])

DigitVal(c) == IndexIn(DigitChars, c) - 1

\* int() of a non-empty string of digits.
RECURSIVE Number(_)
Number(s) ==
    IF Len(s) = 0 THEN 0
    ELSE 10 * Number(SubSeq(s, 1, Len(s) - 1)) + DigitVal(s[Len(s)])

AllDigits(s) == \A i \in DOMAIN s : IsDigit(s[i])

\* date.isoformat(): YYYY-MM-DD.
DateIso(v) == Digits(v.y, 4) \o <<"-">> \o Digits(v.m, 2) \o <<"-">> \o Digits(v.d, 2)

\* datetime.isoformat(): YYYY-MM-DDTHH:MM:SS.
DateTimeIso(v) ==
    DateIso(v) \o <<"T">> \o Digits(v.hh, 2) \o <<":">> \o Digits(v.mi, 2)
               \o <<":">> \o Digits(v.ss, 2)

\* strftime('%Y-%m-%d') of a date or a datetime.
Strftime(v) == DateIso(v)

\* utils.date_to_str: d.isoformat(), which for a datetime (a subclass of date)
\* is datetime.isoformat().
date_to_str(v) == IF v.t = "datetime" THEN PyStr(DateTimeIso(v)) ELSE PyStr(DateIso(v))

\* utils.datetime_to_str: dt.strftime(TIMESTAMP_FORMAT).
datetime_to_str(v) == PyStr(Strftime(v))

\* datetime.strptime(s, '%Y-%m-%d'): four digits of year, one or two of
\* month, one or two of day, and nothing else; ValueError otherwise. A value
\* that is no string is a TypeError.
Strptime(v) ==
    IF v.t # "str" THEN Exc("TypeError")
    ELSE LET s == v.s
             cuts == {j \in {7, 8} :
                         /\ Len(s) - j \in {1, 2}
                         /\ s[j] = "-"
                         /\ AllDigits(SubSeq(s, 6, j - 1))
                         /\ AllDigits(SubSeq(s, j + 1, Len(s)))}
         IN  IF Len(s) < 8 \/ ~AllDigits(SubSeq(s, 1, 4)) \/ s[5] # "-" \/ cuts = {}
             THEN Exc("ValueError")
             ELSE LET j == CHOOSE j \in cuts : TRUE
                      y == Number(SubSeq(s, 1, 4))
                      m == Number(SubSeq(s, 6, j - 1))
                      d == Number(SubSeq(s, j + 1, Len(s)))
                  IN  IF y < 1 \/ m \notin 1..12 \/ d < 1 \/ d > DaysInMonth(y, m)
                      THEN Exc("ValueError")
                      ELSE DateTime(y, m, d, 0, 0, 0)

\* utils.str_to_datetime
str_to_datetime(v) == Strptime(v)

\* utils.str_to_date: strptime(...).date()
str_to_date(v) ==
    LET dt == Strptime(v) IN IF IsExc(dt) THEN dt ELSE Date(dt.y, dt.m, dt.d)

(***************************************************************************)
(* DateRange (fields.py)                                                   *)
(***************************************************************************)
\* Comparison of two dates (the model holds no mixed date/datetime ranges).
DateLess(a, b) == <<a.y, a.m, a.d>> # <<b.y, b.m, b.d>> /\
    (a.y < b.y \/ (a.y = b.y /\ (a.m < b.m \/ (a.m = b.m /\ a.d < b.d))))

\* A constructor that stores start and end as given.
DateRange_Unordered(start, end) == [t |-> "DateRange", start |-> start, end |-> end]

\* DateRange.__init__: start and end are swapped when both are given and
\* start > end.
DateRange(start, end) ==
    IF Truthy(start) /\ Truthy(end) /\ DateLess(end, start)
    THEN [t |-> "DateRange", start |-> end, end |-> start]
    ELSE [t |-> "DateRange", start |-> start, end |-> end]

\* DateRange.from_dict
DateRange_from_dict(v) ==
    IF v.t # "dict" THEN Exc("AttributeError")
    ELSE LET start == DictGet(v.d, Key("", "start"))
             end == DictGet(v.d, Key("", "end"))
             s == IF Truthy(start) THEN str_to_date(start) ELSE start
             e == IF Truthy(end) THEN str_to_date(end) ELSE end
         IN  IF ~(Truthy(start) \/ Truthy(end)) THEN Exc("ValueError")
             ELSE IF IsExc(s) THEN s
             ELSE IF IsExc(e) THEN e
             ELSE DateRange(s, e)

\* DateRange.to_dict
DateRange_to_dict(r) ==
    LET keys == (IF Truthy(r.start) THEN {Key("", "start")} ELSE {})
                \cup (IF Truthy(r.end) THEN {Key("", "end")} ELSE {})
    IN  PyDict([k \in keys |-> IF k = Key("", "start") THEN date_to_str(r.start)
                                                       ELSE date_to_str(r.end)])

(***************************************************************************)
(* Calendar arithmetic of datetime.date                                    *)
(***************************************************************************)
\* The days of the years before year y.
DaysBeforeYear(y) ==
    (y - 1) * 365 + ((y - 1) \div 4) - ((y - 1) \div 100) + ((y - 1) \div 400)

\* The days of year y before month m.
RECURSIVE DaysBeforeMonth(_, _)
DaysBeforeMonth(y, m) ==
    IF m = 1 THEN 0 ELSE DaysBeforeMonth(y, m - 1) + DaysInMonth(y, m - 1)

\* date.toordinal(): January 1 of year 1 is day 1.
ToOrdinal(v) == DaysBeforeYear(v.y) + DaysBeforeMonth(v.y, v.m) + v.d

\* date.fromordinal(n)
FromOrdinal(n) ==
    LET y == CHOOSE yy \in (((n - 1) \div 366) + 1)..(((n - 1) \div 365) + 1) :
                 DaysBeforeYear(yy) < n /\ n <= DaysBeforeYear(yy + 1)
        r == n - DaysBeforeYear(y)
        m == CHOOSE mm \in 1..12 :
                 DaysBeforeMonth(y, mm) < r /\ r <= DaysBeforeMonth(y, mm) + DaysInMonth(y, mm)
    IN  Date(y, m, r - DaysBeforeMonth(y, m))

\* datetime.date(y, m, d): ValueError outside years 1..9999 and for a day
\* the month does not have.
NewDate(y, m, d) ==
    IF y \notin 1..9999 \/ m \notin 1..12 \/ d \notin 1..DaysInMonth(y, m)
    THEN Exc("ValueError")
    ELSE Date(y, m, d)

\* v.replace(year=y, day=d)
Replace(v, y, d) == NewDate(y, v.m, d)

\* v + datetime.timedelta(days=k)
AddDays(v, k) == FromOrdinal(ToOrdinal(v) + k)

\* DateRange.middle: start + (end - start) / 2; adding a timedelta to a date
\* uses its whole days only.
DateRange_middle(r) ==
    IF ~(Truthy(r.start) /\ Truthy(r.end)) THEN PyOr(r.start, r.end)
    ELSE AddDays(r.start, (ToOrdinal(r.end) - ToOrdinal(r.start)) \div 2)

\* A from_years_range that orders the two years before building the range.
DateRange_from_years_range_Sorted(start_year, end_year) ==
    LET lo == IF start_year <= end_year THEN start_year ELSE end_year
        hi == IF start_year <= end_year THEN end_year ELSE start_year
        start == NewDate(lo, 1, 1)
        end == NewDate(hi, 12, 31)
    IN  IF IsExc(start) THEN start
        ELSE IF IsExc(end) THEN end
        ELSE DateRange(start, end)

\* DateRange.from_years_range
DateRange_from_years_range(start_year, end_year) ==
    LET start == NewDate(start_year, 1, 1)
        end == NewDate(end_year, 12, 31)
    IN  IF IsExc(start) THEN start
        ELSE IF IsExc(end) THEN end
        ELSE DateRange(start, end)

(***************************************************************************)
(* The Field variants (fields.py): class tables                            *)
(***************************************************************************)
FieldClasses ==
    {"Name", "Address", "Phone", "Email", "Job", "Education", "Image", "Username",
     "UserID", "DOB", "URL", "Tag", "Gender", "Ethnicity", "Language", "OriginCountry"}

\* Field.base_attributes
base_attributes == <<"valid_since", "inferred", "last_seen", "current">>

\* cls.attributes: the attributes encoded with the "@" prefix.
attributes(cls) ==
    CASE cls \in {"Name", "Address", "Phone"} -> <<"type">>
      [] cls = "Email" -> <<"type", "disposable", "email_provider">>
      [] cls = "URL" -> <<"category", "sponsored", "domain", "name", "source_id">>
      [] cls = "Tag" -> <<"classification">>
      [] OTHER -> <<>>

\* cls.children: the attributes encoded with a plain key.
children(cls) ==
    CASE cls = "Name" -> <<"prefix", "first", "middle", "last", "suffix", "raw", "display">>
      [] cls = "Address" -> <<"country", "state", "city", "po_box", "zip_code", "street",
                              "house", "apartment", "raw", "display">>
      [] cls = "Phone" -> <<"country_code", "number", "extension", "raw", "display",
                            "display_international">>
      [] cls = "Email" -> <<"address", "address_md5">>
      [] cls = "Job" -> <<"title", "organization", "industry", "date_range", "display">>
      [] cls = "Education" -> <<"degree", "school", "date_range", "display">>
      [] cls = "Image" -> <<"url", "thumbnail_token">>
      [] cls = "OriginCountry" -> <<"country">>
      [] cls = "Language" -> <<"language", "region", "display">>
      [] cls = "DOB" -> <<"date_range", "display">>
      [] cls = "URL" -> <<"url">>
      [] OTHER -> <<"content">>

\* cls.types_set
types_set(cls) ==
    CASE cls = "Name" -> {<<"p", "r", "e", "s", "e", "n", "t">>, <<"m", "a", "i", "d", "e", "n">>,
                          <<"f", "o", "r", "m", "e", "r">>, <<"a", "l", "i", "a", "s">>,
                          <<"a", "l", "t", "e", "r", "n", "a", "t", "i", "v", "e">>,
                          <<"a", "u", "t", "o", "g", "e", "n", "e", "r", "a", "t", "e", "d">>}
      [] cls = "Address" -> {<<"h", "o", "m", "e">>, <<"w", "o", "r", "k">>, <<"o", "l", "d">>}
      [] cls = "Phone" -> {<<"m", "o", "b", "i", "l", "e">>,
                           <<"h", "o", "m", "e", "_", "p", "h", "o", "n", "e">>,
                           <<"h", "o", "m", "e", "_", "f", "a", "x">>,
                           <<"w", "o", "r", "k", "_", "p", "h", "o", "n", "e">>,
                           <<"w", "o", "r", "k", "_", "f", "a", "x">>,
                           <<"p", "a", "g", "e", "r">>}
      [] cls = "Email" -> {<<"p", "e", "r", "s", "o", "n", "a", "l">>, <<"w", "o", "r", "k">>}
      [] OTHER -> {}

\* Gender.genders
genders == {<<"m", "a", "l", "e">>, <<"f", "e", "m", "a", "l", "e">>}

\* The instance attributes that cls.__init__ assigns besides the four base
\* attributes, in the order of the assignments.
OwnAttrs(cls) ==
    CASE cls = "Name" -> <<"prefix", "first", "middle", "last", "suffix", "raw", "type",
                           "_display">>
      [] cls = "Address" -> <<"country", "state", "city", "zip_code", "po_box", "street",
                              "house", "apartment", "raw", "type", "_display">>
      [] cls = "Phone" -> <<"country_code", "number", "raw", "extension", "type", "_display",
                            "display_international">>
      [] cls = "Email" -> <<"address", "address_md5", "type", "email_provider", "disposable">>
      [] cls = "Job" -> <<"title", "organization", "industry", "date_range", "_display">>
      [] cls = "Education" -> <<"degree", "school", "date_range", "_display">>
      [] cls = "Image" -> <<"url", "thumbnail_token">>
      [] cls = "OriginCountry" -> <<"country">>
      [] cls = "Language" -> <<"language", "region", "_display">>
      [] cls = "DOB" -> <<"date_range", "_display">>
      [] cls = "URL" -> <<"url", "domain", "sponsored", "name", "category", "source_id">>
      [] cls = "Tag" -> <<"content", "classification">>
      [] cls = "Gender" -> <<"_content">>
      [] OTHER -> <<"content">>

InstAttrs(cls) == Range(base_attributes) \cup Range(OwnAttrs(cls))

\* The keyword argument of cls.__init__ that an instance attribute is
\* assigned from.
ParamOf(attr) ==
    CASE attr = "type" -> "type_"
      [] attr = "_display" -> "display"
      [] attr = "_content" -> "content"
      [] OTHER -> attr

Params(cls) == {ParamOf(a) : a \in InstAttrs(cls)}

(***************************************************************************)
(* Field objects: construction, attribute access, display                  *)
(* A field object is [cls |-> <class>, a |-> <instance attribute values>]. *)
(***************************************************************************)
\* utils.COUNTRIES, abridged to the codes the model's inputs use.
COUNTRIES ==
    (<<"U", "S">> :> <<"U", "n", "i", "t", "e", "d", " ", "S", "t", "a", "t", "e", "s">>)
    @@ (<<"F", "R">> :> <<"F", "r", "a", "n", "c", "e">>)
    @@ (<<"G", "B">> :> <<"G", "r", "e", "a", "t", " ", "B", "r", "i", "t", "a", "i", "n">>)
    @@ (<<"C", "A">> :> <<"C", "a", "n", "a", "d", "a">>)

\* Field.validate_type: raises ValueError (here TRUE) for a type that is
\* neither None nor in the class's types_set.
validate_type(cls, v) == v # None /\ (v.t # "str" \/ v.s \notin types_set(cls))

\* A __setattr__ that stores a `type` without validating it.
StoredValue_Unchecked(cls, attr, v) ==
    CASE cls = "Gender" /\ attr = "_content" ->
            IF Lower(v.s) \notin genders THEN None ELSE v
      [] OTHER -> v

\* Field.__setattr__ and the property setters: the value that the assignment
\* `obj.attr = v` stores. An invalid `type` is logged and stored as None;
\* Gender.content is stored as None unless its lower case is a gender.
StoredValue(cls, attr, v) ==
    CASE attr = "type" -> IF validate_type(cls, v) THEN None ELSE v
      [] cls = "Gender" /\ attr = "_content" ->
            IF Lower(v.s) \notin genders THEN None ELSE v
      [] OTHER -> v

\* cls(**kw): the constructors of the Field variants. Keyword arguments the
\* constructor does not name end in Field.__init__'s **kwargs and are
\* ignored. Gender and Ethnicity call content.lower(), which raises
\* AttributeError when content is not a string.
Construct(cls, kw) ==
    LET arg(attr) == IF ParamOf(attr) \in DOMAIN kw THEN kw[ParamOf(attr)] ELSE None
    IN  IF cls = "Gender" /\ arg("_content").t # "str" THEN Exc("AttributeError")
        ELSE IF cls = "Ethnicity" /\ arg("content").t # "str" THEN Exc("AttributeError")
        ELSE [cls |-> cls,
              a |-> [attr \in InstAttrs(cls) |->
                        IF cls = "Ethnicity" /\ attr = "content"
                        THEN PyStr(Lower(arg(attr).s))
                        ELSE StoredValue(cls, attr, arg(attr))]]

\* The `display` property of each variant.
Display(f) ==
    CASE f.cls = "Gender" ->
            IF Truthy(f.a["_content"]) THEN PyStr(Title(f.a["_content"].s)) ELSE None
      [] f.cls = "Ethnicity" ->
            IF Truthy(f.a["content"])
            THEN PyStr(Title(ReplaceChar(f.a["content"].s, "_", " "))) ELSE None
      [] f.cls = "Email" -> PyOr(f.a["address"], f.a["address_md5"])
      [] f.cls = "Image" -> f.a["url"]
      [] f.cls = "OriginCountry" ->
            IF Truthy(f.a["country"])
            THEN (IF Upper(f.a["country"].s) \in DOMAIN COUNTRIES
                  THEN PyStr(COUNTRIES[Upper(f.a["country"].s)]) ELSE None)
            ELSE None
      [] f.cls \in {"Username", "UserID", "Tag"} -> f.a["content"]
      [] f.cls = "URL" -> PyOr(f.a["url"], f.a["name"])
      [] OTHER -> IF Truthy(f.a["_display"]) THEN f.a["_display"] ELSE None

\* getattr(f, name)
GetAttr(f, name) ==
    CASE name = "display" -> Display(f)
      [] name = "content" /\ f.cls = "Gender" -> f.a["_content"]
      [] OTHER -> f.a[name]

(***************************************************************************)
(* DOB: the age and the factory helpers (fields.py). `today` stands for    *)
(* datetime.date.today() as the call reads it.                             *)
(***************************************************************************)
\* (a.month, a.day) < (b.month, b.day)
MonthDayLess(a, b) == a.m < b.m \/ (a.m = b.m /\ a.d < b.d)

\* An age that is the difference of the years alone.
DOB_age_YearsOnly(f, today) ==
    IF f.a["date_range"] = None THEN None
    ELSE PyInt(today.y - DateRange_middle(f.a["date_range"]).y)

\* DOB.age
DOB_age(f, today) ==
    IF f.a["date_range"] = None THEN None
    ELSE LET dob == DateRange_middle(f.a["date_range"])
         IN  IF MonthDayLess(today, dob) THEN PyInt(today.y - dob.y - 1)
             ELSE PyInt(today.y - dob.y)

\* DOB.from_birth_year
DOB_from_birth_year(birth_year) ==
    IF birth_year <= 0 THEN Exc("ValueError")
    ELSE LET date_range == DateRange_from_years_range(birth_year, birth_year)
         IN  IF IsExc(date_range) THEN date_range
             ELSE Construct("DOB", [date_range |-> date_range])

\* A from_birth_date without the comparison with today.
DOB_from_birth_date_Unchecked(birth_date, today) ==
    Construct("DOB", [date_range |-> DateRange(birth_date, birth_date)])

\* DOB.from_birth_date
DOB_from_birth_date(birth_date, today) ==
    IF DateLess(today, birth_date) THEN Exc("ValueError")
    ELSE Construct("DOB", [date_range |-> DateRange(birth_date, birth_date)])

\* today.replace(year=y), and today.replace(year=y, day=28) when that raises
\* ValueError (February 29); the second call's ValueError is not handled.
ReplaceYear(today, y) ==
    IF IsExc(Replace(today, y, today.d)) THEN Replace(today, y, 28)
    ELSE Replace(today, y, today.d)

\* DOB.from_age_range
DOB_from_age_range(start_age, end_age, today) ==
    IF start_age < 0 \/ end_age < 0 THEN Exc("ValueError")
    ELSE LET lo == IF start_age > end_age THEN end_age ELSE start_age
             hi == IF start_age > end_age THEN start_age ELSE end_age
             start_date == ReplaceYear(today, today.y - hi - 1)
             end_date == ReplaceYear(today, today.y - lo)
         IN  IF IsExc(start_date) THEN start_date
             ELSE IF IsExc(end_date) THEN end_date
             ELSE Construct("DOB", [date_range |->
                                       DateRange(AddDays(start_date, 1), end_date)])

\* DOB.from_age
DOB_from_age(age, today) == DOB_from_age_range(age, age, today)

(***************************************************************************)
(* Field.to_dict and Field.from_dict                                       *)
(***************************************************************************)
\* The body of the to_dict loop for one attribute value: a Serializable is
\* dict-encoded, a datetime.date instance (a datetime is one) goes through
\* date_to_str, and what is then still a datetime through datetime_to_str.
EncodeValue(v) ==
    LET v1 == IF v.t = "DateRange" THEN DateRange_to_dict(v) ELSE v
        v2 == IF v1.t \in {"date", "datetime"} THEN date_to_str(v1) ELSE v1
        v3 == IF v2.t = "datetime" THEN datetime_to_str(v2) ELSE v2
    IN  v3

\* `if value or isinstance(value, (bool, int))`
Emitted(v) == Truthy(v) \/ v.t \in {"bool", "int"}

\* Field.to_dict (with Phone.to_dict's display_international).
Field_to_dict(f) ==
    LET prefixed == Range(base_attributes) \cup Range(attributes(f.cls))
        plain == Range(children(f.cls))
        keys == {Key("@", a) : a \in {x \in prefixed : Emitted(EncodeValue(GetAttr(f, x)))}}
                \cup {Key("", a) : a \in {x \in plain : Emitted(EncodeValue(GetAttr(f, x)))}}
                \cup (IF Truthy(Display(f)) THEN {Key("", "display")} ELSE {})
                \cup (IF f.cls = "Phone" /\ Truthy(f.a["display_international"])
                      THEN {Key("", "display_international")} ELSE {})
    IN  [k \in keys |->
            IF k = Key("", "display") THEN Display(f)
            ELSE IF f.cls = "Phone" /\ k = Key("", "display_international")
            THEN f.a["display_international"]
            ELSE EncodeValue(GetAttr(f, k[2]))]

\* The keyword name Field.from_dict derives from a key: the "@" prefix is
\* stripped and `type` becomes `type_`.
KwName(k) == IF k[2] = "type" THEN "type_" ELSE k[2]

\* The keyword value Field.from_dict derives from a key's value.
KwValue(k, v) ==
    CASE k[2] \in {"valid_since", "last_seen"} -> str_to_datetime(v)
      [] k[2] = "date_range" -> DateRange_from_dict(v)
      [] OTHER -> v

\* A Field.from_dict whose constructors take no **kwargs: a keyword that is
\* no parameter of cls.__init__ is a TypeError.
Field_from_dict_Strict(cls, d) ==
    LET names == {KwName(k) : k \in DOMAIN d}
        keyOf(n) == CHOOSE k \in DOMAIN d : KwName(k) = n
        kw == [n \in names |-> KwValue(keyOf(n), d[keyOf(n)])]
        bad == {n \in names : IsExc(kw[n])}
    IN  IF bad # {} THEN kw[CHOOSE n \in bad : TRUE]
        ELSE IF ~(names \subseteq Params(cls)) THEN Exc("TypeError")
        ELSE Construct(cls, kw)

\* Field.from_dict: the field, or the exception a conversion or the
\* constructor raises. (Two keys of d that give the same keyword, such as
\* "@first" and "first", do not occur in the dicts of this model.)
Field_from_dict(cls, d) ==
    LET names == {KwName(k) : k \in DOMAIN d}
        keyOf(n) == CHOOSE k \in DOMAIN d : KwName(k) = n
        kw == [n \in names |-> KwValue(keyOf(n), d[keyOf(n)])]
        bad == {n \in names : IsExc(kw[n])}
    IN  IF bad # {} THEN kw[CHOOSE n \in bad : TRUE] ELSE Construct(cls, kw)

(***************************************************************************)
(* Field.__repr__ and Field.__eq__                                         *)
(***************************************************************************)
\* A __repr__ that does not leave the "display..." attributes out.
Field_repr_WithDisplay(f) ==
    LET attrs == base_attributes \o attributes(f.cls) \o children(f.cls)
        shown == SelectSeq(attrs, LAMBDA a : GetAttr(f, a) # None)
    IN  [cls |-> f.cls,
         args |-> [i \in DOMAIN shown |->
                     <<IF shown[i] = "type" THEN "type_" ELSE shown[i],
                       GetAttr(f, shown[i])>>]]

\* Field.__repr__: the class name and the (name, value) pairs of the
\* attributes that are not None, "display..." attributes left out. repr() of
\* a value is one-to-one on the values of this model, so the value stands
\* for its repr.
Field_repr(f) ==
    LET attrs == base_attributes \o attributes(f.cls) \o children(f.cls)
        IsShown(a) == a \notin {"display", "display_international"}
                      /\ GetAttr(f, a) # None
        shown == SelectSeq(attrs, IsShown)
    IN  [cls |-> f.cls,
         args |-> [i \in DOMAIN shown |->
                     <<IF shown[i] = "type" THEN "type_" ELSE shown[i],
                       GetAttr(f, shown[i])>>]]

\* Field.__eq__
Field_eq(f, g) == Field_repr(f) = Field_repr(g)

(***************************************************************************)
(* The searchability rules of the Field variants (fields.py)               *)
(***************************************************************************)
\* `v or u''`: the characters of a string attribute, none for a falsy one.
CharsOf(v) == IF Truthy(v) THEN v.s ELSE <<>>

\* A Name.is_searchable that counts every character.
Name_is_searchable_AnyChars(f) ==
    LET first == CharsOf(f.a["first"])
        last == CharsOf(f.a["last"])
        raw == CharsOf(f.a["raw"])
    IN  PyBool((Len(first) >= 2 /\ Len(last) >= 2) \/ Len(raw) >= 4)

\* Name.is_searchable
Name_is_searchable(f) ==
    LET first == alpha_chars(CharsOf(f.a["first"]))
        last == alpha_chars(CharsOf(f.a["last"]))
        raw == alpha_chars(CharsOf(f.a["raw"]))
    IN  PyBool((Len(first) >= 2 /\ Len(last) >= 2) \/ Len(raw) >= 4)

\* Address.is_sole_searchable
Address_is_sole_searchable(f) ==
    PyBool(Truthy(PyOr(f.a["raw"],
                       PyAnd(PyAnd(f.a["city"], f.a["street"]), f.a["house"]))))

\* An Address.is_searchable that asks for a valid country.
Address_is_searchable_ValidCountry(f) ==
    PyBool(\/ Truthy(f.a["raw"])
           \/ /\ f.a["country"] # None
              /\ Upper(f.a["country"].s) \in DOMAIN COUNTRIES)

\* Address.is_searchable
Address_is_searchable(f) ==
    PyBool(Truthy(PyOr(PyOr(PyOr(f.a["raw"], f.a["country"]), f.a["state"]), f.a["city"])))

\* Phone.is_searchable: the value of `(number and country_code) or raw`.
Phone_is_searchable(f) ==
    PyOr(PyAnd(f.a["number"], f.a["country_code"]), f.a["raw"])

\* The character classes of Email.re_email: [\w.%\-+] and [\w.%\-].
EmailLocalChar(c) == IsAlnum(c) \/ c \in {"_", ".", "%", "-", "+"}

EmailDomainChar(c) == IsAlnum(c) \/ c \in {"_", ".", "%", "-"}

\* Email.re_email.match(s): ^[\w.%\-+]+@[\w.%\-]+\.[a-zA-Z]{2,6}$ ($ also
\* matches before a final newline).
re_email_match(s) ==
    \E n \in {Len(s)} \cup {k \in {Len(s) - 1} : k >= 1 /\ s[Len(s)] = "\n"} :
      \E i \in 2..n : \E j \in (i + 2)..n :
         /\ s[i] = "@"
         /\ s[j] = "."
         /\ \A k \in 1..(i - 1) : EmailLocalChar(s[k])
         /\ \A k \in (i + 1)..(j - 1) : EmailDomainChar(s[k])
         /\ n - j \in 2..6
         /\ \A k \in (j + 1)..n : IsAlpha(s[k])

\* Email.is_valid_email
Email_is_valid_email(f) ==
    Truthy(f.a["address"]) /\ f.a["address"].t = "str" /\ re_email_match(f.a["address"].s)

\* Email.is_searchable: the value of
\* `is_valid_email or (address_md5 and len(address_md5) == 32)`.
Email_is_searchable(f) ==
    IF Email_is_valid_email(f) THEN PyBool(TRUE)
    ELSE IF Truthy(f.a["address_md5"]) THEN PyBool(Len(f.a["address_md5"].s) = 32)
    ELSE f.a["address_md5"]

\* Username.is_searchable
Username_is_searchable(f) == PyBool(Len(alnum_chars(CharsOf(f.a["content"]))) >= 4)

\* content.split("@")[k] for k = 0, 1 of a string that holds an "@".
SplitAt(s, k) ==
    LET ats == {i \in DOMAIN s : s[i] = "@"}
        first == CHOOSE i \in ats : \A j \in ats : i <= j
        later == {i \in ats : i > first}
        second == IF later = {} THEN Len(s) + 1
                  ELSE CHOOSE i \in later : \A j \in later : i <= j
    IN  IF k = 0 THEN SubSeq(s, 1, first - 1) ELSE SubSeq(s, first + 1, second - 1)

\* UserID.is_searchable
UserID_is_searchable(f) ==
    LET c == f.a["content"]
    IN  PyBool(/\ c # None
               /\ "@" \in Range(c.s)
               /\ Strip(SplitAt(c.s, 0)) # <<>>
               /\ Strip(SplitAt(c.s, 1)) # <<>>)

\* DOB.is_searchable
DOB_is_searchable(f) == PyBool(f.a["date_range"] # None)

\* URL.is_searchable
URL_is_searchable(f) == PyBool(Truthy(f.a["url"]))

\* field.is_searchable, dispatched on the field's class.
is_searchable(f) ==
    CASE f.cls = "Name" -> Name_is_searchable(f)
      [] f.cls = "Address" -> Address_is_searchable(f)
      [] f.cls = "Phone" -> Phone_is_searchable(f)
      [] f.cls = "Email" -> Email_is_searchable(f)
      [] f.cls = "Username" -> Username_is_searchable(f)
      [] f.cls = "UserID" -> UserID_is_searchable(f)
      [] f.cls = "DOB" -> DOB_is_searchable(f)
      [] f.cls = "URL" -> URL_is_searchable(f)

(***************************************************************************)
(* FieldsContainer and its subclasses (containers.py)                      *)
(* A container is [cls, s |-> the plural slots, one |-> the singular       *)
(* slots, a |-> the scalar attributes].                                    *)
(***************************************************************************)
ContainerClasses == {"Person", "Source", "Relationship"}

\* The lists FieldsContainer.__init__ creates.
PluralSlots ==
    {"names", "addresses", "phones", "emails", "jobs", "educations", "images",
     "usernames", "user_ids", "languages", "ethnicities", "origin_countries", "urls",
     "relationships", "tags"}

\* cls.class_container, in its declared order: <<field class, slot>>.
class_container(cls) ==
    LET common == <<<<"Name", "names">>, <<"Address", "addresses">>, <<"Phone", "phones">>,
                    <<"Email", "emails">>, <<"Job", "jobs">>, <<"Education", "educations">>,
                    <<"Image", "images">>, <<"Username", "usernames">>,
                    <<"UserID", "user_ids">>, <<"URL", "urls">>>>
        tail == <<<<"Ethnicity", "ethnicities">>, <<"OriginCountry", "origin_countries">>,
                  <<"Language", "languages">>>>
    IN  CASE cls = "Relationship" -> common \o tail
          [] cls = "Source" ->
                common \o <<<<"Relationship", "relationships">>>> \o tail
                       \o <<<<"Tag", "tags">>>>
          [] cls = "Person" -> common \o <<<<"Relationship", "relationships">>>> \o tail

\* cls.singular_fields, in its declared order.
singular_fields(cls) == <<<<"Gender", "gender">>, <<"DOB", "dob">>>>

\* The slot a table declares for a class; "" when it declares none.
SlotOf(table, fcls) ==
    IF \E i \in DOMAIN table : table[i][1] = fcls
    THEN table[CHOOSE i \in DOMAIN table : table[i][1] = fcls][2]
    ELSE ""

\* The scalar attributes each container's __init__ assigns.
ScalarAttrs(cls) ==
    CASE cls = "Person" -> {"person_id", "search_pointer", "match", "inferred"}
      [] cls = "Source" -> {"match", "valid_since", "name", "category", "origin_url",
                            "domain", "sponsored", "source_id", "person_id", "premium"}
      [] cls = "Relationship" -> {"type", "subtype", "valid_since", "inferred"}

\* An add_fields under which a singular slot keeps the first field it was
\* given.
RECURSIVE add_fields_KeepFirst(_, _)
add_fields_KeepFirst(c, fields) ==
    IF fields = <<>> THEN [obj |-> c, exc |-> None]
    ELSE LET field == Head(fields)
             plural == SlotOf(class_container(c.cls), field.cls)
             single == SlotOf(singular_fields(c.cls), field.cls)
         IN  IF plural # ""
             THEN add_fields_KeepFirst([c EXCEPT !.s[plural] = Append(@, field)],
                                       Tail(fields))
             ELSE IF single # ""
             THEN add_fields_KeepFirst(
                      [c EXCEPT !.one[single] = IF @ = None THEN field ELSE @],
                      Tail(fields))
             ELSE [obj |-> c, exc |-> Exc("ValueError")]

\* An add_fields that adds nothing when it raises.
RECURSIVE add_fields_Atomic(_, _)
add_fields_Atomic(c, fields) ==
    IF fields = <<>> THEN [obj |-> c, exc |-> None]
    ELSE LET field == Head(fields)
             plural == SlotOf(class_container(c.cls), field.cls)
             single == SlotOf(singular_fields(c.cls), field.cls)
             rest == IF plural # ""
                     THEN add_fields_Atomic([c EXCEPT !.s[plural] = Append(@, field)],
                                            Tail(fields))
                     ELSE add_fields_Atomic([c EXCEPT !.one[single] = field],
                                            Tail(fields))
         IN  IF plural = "" /\ single = "" THEN [obj |-> c, exc |-> Exc("ValueError")]
             ELSE IF rest.exc # None THEN [obj |-> c, exc |-> rest.exc]
             ELSE rest

\* An add_fields under which a slot holds the last field it was given only.
RECURSIVE add_fields_Replacing(_, _)
add_fields_Replacing(c, fields) ==
    IF fields = <<>> THEN [obj |-> c, exc |-> None]
    ELSE LET field == Head(fields)
             plural == SlotOf(class_container(c.cls), field.cls)
             single == SlotOf(singular_fields(c.cls), field.cls)
         IN  IF plural # ""
             THEN add_fields_Replacing([c EXCEPT !.s[plural] = <<field>>], Tail(fields))
             ELSE IF single # ""
             THEN add_fields_Replacing([c EXCEPT !.one[single] = field], Tail(fields))
             ELSE [obj |-> c, exc |-> Exc("ValueError")]

\* FieldsContainer.add_fields: each field goes to the slot declared for its
\* class; a field of an undeclared class raises ValueError, which ends the
\* loop. The result is the container as the call leaves it and the
\* exception raised, if any.
RECURSIVE add_fields(_, _)
add_fields(c, fields) ==
    IF fields = <<>> THEN [obj |-> c, exc |-> None]
    ELSE LET field == Head(fields)
             plural == SlotOf(class_container(c.cls), field.cls)
             single == SlotOf(singular_fields(c.cls), field.cls)
         IN  IF plural # ""
             THEN add_fields([c EXCEPT !.s[plural] = Append(@, field)], Tail(fields))
             ELSE IF single # ""
             THEN add_fields([c EXCEPT !.one[single] = field], Tail(fields))
             ELSE [obj |-> c, exc |-> Exc("ValueError")]

\* FieldsContainer.__init__ followed by the subclass's assignments of its
\* scalar attributes: cls(fields=fields, **kw). Person.__init__ takes no
\* scalar arguments and sets its four scalars to None. The result is the
\* container, or the exception add_fields raised.
ContainerParam(attr) == IF attr = "type" THEN "type_" ELSE attr

NewContainerOf(cls, fields, kw) ==
    LET empty == [cls |-> cls,
                  s |-> [slot \in PluralSlots |-> <<>>],
                  one |-> [slot \in {"gender", "dob"} |-> None],
                  a |-> [attr \in ScalarAttrs(cls) |-> None]]
        filled == add_fields(empty, fields)
    IN  IF filled.exc # None THEN filled.exc
        ELSE [filled.obj EXCEPT !.a =
                [attr \in ScalarAttrs(cls) |->
                    IF cls # "Person" /\ ContainerParam(attr) \in DOMAIN kw
                    THEN kw[ContainerParam(attr)] ELSE None]]

\* Concatenation of a sequence of sequences.
RECURSIVE Flatten(_)
Flatten(ss) == IF ss = <<>> THEN <<>> ELSE Head(ss) \o Flatten(Tail(ss))

\* An all_fields that lists the singular slots first.
all_fields_SingleFirst(c) ==
    LET cc == class_container(c.cls)
        sf == singular_fields(c.cls)
        multiple == Flatten([i \in DOMAIN cc |-> c.s[cc[i][2]]])
        single == Flatten([i \in DOMAIN sf |->
                              IF c.one[sf[i][2]] # None THEN <<c.one[sf[i][2]]>>
                              ELSE <<>>])
    IN  single \o multiple

\* FieldsContainer.all_fields
all_fields(c) ==
    LET cc == class_container(c.cls)
        sf == singular_fields(c.cls)
        multiple == Flatten([i \in DOMAIN cc |-> c.s[cc[i][2]]])
        single == Flatten([i \in DOMAIN sf |->
                              IF c.one[sf[i][2]] # None THEN <<c.one[sf[i][2]]>>
                              ELSE <<>>])
    IN  multiple \o single

\* A dict built by a chain of `if <test>: d[key] = value` statements: the
\* entries of `table` whose key is in `keep`.
DictOf(table, keep) == [k \in keep |-> table[k]]

RECURSIVE to_dict(_)

\* A fields_to_dict that writes each slot's array last field first.
fields_to_dict_Reversed(c) ==
    LET cc == class_container(c.cls)
        sf == singular_fields(c.cls)
        plural == {i \in DOMAIN cc : c.s[cc[i][2]] # <<>>}
        single == {i \in DOMAIN sf : c.one[sf[i][2]] # None}
        keys == {Key("", cc[i][2]) : i \in plural} \cup {Key("", sf[i][2]) : i \in single}
    IN  [k \in keys |->
            IF k[2] \in PluralSlots
            THEN PyList([j \in DOMAIN c.s[k[2]] |->
                            PyDict(to_dict(c.s[k[2]][Len(c.s[k[2]]) + 1 - j]))])
            ELSE PyDict(to_dict(c.one[k[2]]))]

\* FieldsContainer.fields_to_dict
fields_to_dict(c) ==
    LET cc == class_container(c.cls)
        sf == singular_fields(c.cls)
        plural == {i \in DOMAIN cc : c.s[cc[i][2]] # <<>>}
        single == {i \in DOMAIN sf : c.one[sf[i][2]] # None}
        keys == {Key("", cc[i][2]) : i \in plural} \cup {Key("", sf[i][2]) : i \in single}
    IN  [k \in keys |->
            IF k[2] \in PluralSlots
            THEN PyList([j \in DOMAIN c.s[k[2]] |-> PyDict(to_dict(c.s[k[2]][j]))])
            ELSE PyDict(to_dict(c.one[k[2]]))]

\* Relationship.to_dict
Relationship_to_dict(c) ==
    LET table == (Key("@", "type") :> c.a["type"])
                 @@ (Key("@", "subtype") :> c.a["subtype"])
                 @@ (Key("@", "inferred") :> c.a["inferred"])
                 @@ (Key("@", "valid_since") :>
                        IF c.a["valid_since"] # None
                        THEN datetime_to_str(c.a["valid_since"]) ELSE None)
        keep == (IF c.a["type"] # None THEN {Key("@", "type")} ELSE {})
                \cup (IF Truthy(c.a["subtype"]) THEN {Key("@", "subtype")} ELSE {})
                \cup (IF Truthy(c.a["inferred"]) THEN {Key("@", "inferred")} ELSE {})
                \cup (IF c.a["valid_since"] # None THEN {Key("@", "valid_since")} ELSE {})
    IN  DictUpdate(DictOf(table, keep), fields_to_dict(c))

\* A Source.to_dict that writes premium and source_id whenever they are not
\* None, like the other attributes.
Source_to_dict_NotNone(c) ==
    LET table == (Key("@", "name") :> c.a["name"])
                 @@ (Key("@", "category") :> c.a["category"])
                 @@ (Key("@", "origin_url") :> c.a["origin_url"])
                 @@ (Key("@", "domain") :> c.a["domain"])
                 @@ (Key("@", "sponsored") :> c.a["sponsored"])
                 @@ (Key("@", "match") :> c.a["match"])
                 @@ (Key("@", "person_id") :> c.a["person_id"])
                 @@ (Key("@", "valid_since") :>
                        IF c.a["valid_since"] # None
                        THEN datetime_to_str(c.a["valid_since"]) ELSE None)
                 @@ (Key("@", "premium") :> c.a["premium"])
                 @@ (Key("@", "id") :> c.a["source_id"])
        keep == {k \in DOMAIN table : table[k] # None}
    IN  DictUpdate(DictOf(table, keep), fields_to_dict(c))

\* Source.to_dict
Source_to_dict(c) ==
    LET table == (Key("@", "name") :> c.a["name"])
                 @@ (Key("@", "category") :> c.a["category"])
                 @@ (Key("@", "origin_url") :> c.a["origin_url"])
                 @@ (Key("@", "domain") :> c.a["domain"])
                 @@ (Key("@", "sponsored") :> c.a["sponsored"])
                 @@ (Key("@", "match") :> c.a["match"])
                 @@ (Key("@", "person_id") :> c.a["person_id"])
                 @@ (Key("@", "valid_since") :>
                        IF c.a["valid_since"] # None
                        THEN datetime_to_str(c.a["valid_since"]) ELSE None)
                 @@ (Key("@", "premium") :> c.a["premium"])
                 @@ (Key("@", "id") :> c.a["source_id"])
        keep == {k \in DOMAIN table \ {Key("@", "premium"), Key("@", "id")} :
                    table[k] # None}
                \cup (IF Truthy(c.a["premium"]) THEN {Key("@", "premium")} ELSE {})
                \cup (IF Truthy(c.a["source_id"]) THEN {Key("@", "id")} ELSE {})
    IN  DictUpdate(DictOf(table, keep), fields_to_dict(c))

\* Person.to_dict
Person_to_dict(c) ==
    LET table == (Key("@", "id") :> c.a["person_id"])
                 @@ (Key("@", "search_pointer") :> c.a["search_pointer"])
                 @@ (Key("@", "match") :> c.a["match"])
                 @@ (Key("@", "inferred") :> c.a["inferred"])
        keep == {k \in DOMAIN table : table[k] # None}
    IN  DictUpdate(DictOf(table, keep), fields_to_dict(c))

\* x.to_dict(), dispatched on the class of x.
to_dict(x) ==
    CASE x.cls = "Relationship" -> Relationship_to_dict(x)
      [] x.cls = "Source" -> Source_to_dict(x)
      [] x.cls = "Person" -> Person_to_dict(x)
      [] OTHER -> Field_to_dict(x)

\* The first exception of a sequence of results; None when there is none.
FirstExc(rs) ==
    LET bad == {i \in DOMAIN rs : IsExc(rs[i])}
    IN  IF bad = {} THEN None ELSE rs[CHOOSE i \in bad : \A j \in bad : i <= j]

RECURSIVE from_dict(_, _)

\* FieldsContainer.fields_from_dict: the list of the decoded fields, and the
\* exception the first failing decoding raises, if any.
fields_from_dict(cls, d) ==
    LET cc == class_container(cls)
        sf == singular_fields(cls)
        DecodeItem(fcls, v) ==
            IF v.t # "dict" THEN Exc("AttributeError") ELSE from_dict(fcls, v.d)
        DecodeList(fcls, v) ==
            IF v.t # "list" THEN <<Exc("TypeError")>>
            ELSE [j \in DOMAIN v.l |-> DecodeItem(fcls, v.l[j])]
        plural == Flatten([i \in DOMAIN cc |->
                              IF Key("", cc[i][2]) \in DOMAIN d
                              THEN DecodeList(cc[i][1], d[Key("", cc[i][2])])
                              ELSE <<>>])
        single == Flatten([i \in DOMAIN sf |->
                              IF Key("", sf[i][2]) \in DOMAIN d
                              THEN <<DecodeItem(sf[i][1], d[Key("", sf[i][2])])>>
                              ELSE <<>>])
        fields == plural \o single
    IN  [fields |-> fields, exc |-> FirstExc(fields)]

\* Relationship.from_dict
Relationship_from_dict(d) ==
    LET decoded == fields_from_dict("Relationship", d)
        ins == IF decoded.exc # None THEN decoded.exc
               ELSE NewContainerOf("Relationship", decoded.fields, EmptyDict)
        since == IF Key("@", "valid_since") \in DOMAIN d
                    /\ Truthy(d[Key("@", "valid_since")])
                 THEN str_to_datetime(d[Key("@", "valid_since")]) ELSE None
    IN  IF IsExc(ins) THEN ins
        ELSE IF IsExc(since) THEN since
        ELSE [ins EXCEPT !.a =
                [attr \in ScalarAttrs("Relationship") |->
                    IF attr = "valid_since" THEN since
                    ELSE IF Key("@", attr) \in DOMAIN d THEN d[Key("@", attr)]
                    ELSE None]]

\* Source.from_dict
Source_from_dict(d) ==
    LET since == IF Truthy(DictGet(d, Key("@", "valid_since")))
                 THEN str_to_datetime(d[Key("@", "valid_since")])
                 ELSE DictGet(d, Key("@", "valid_since"))
        decoded == fields_from_dict("Source", d)
        kw == [attr \in ScalarAttrs("Source") |->
                 CASE attr = "valid_since" -> since
                   [] attr = "source_id" -> DictGet(d, Key("@", "id"))
                   [] OTHER -> DictGet(d, Key("@", attr))]
    IN  IF IsExc(since) THEN since
        ELSE IF decoded.exc # None THEN decoded.exc
        ELSE NewContainerOf("Source", decoded.fields, kw)

\* Person.from_dict
Person_from_dict(d) ==
    LET decoded == fields_from_dict("Person", d)
        ins == IF decoded.exc # None THEN decoded.exc
               ELSE NewContainerOf("Person", decoded.fields, EmptyDict)
    IN  IF IsExc(ins) THEN ins
        ELSE [ins EXCEPT !.a =
                [attr \in ScalarAttrs("Person") |->
                    IF attr = "person_id" THEN DictGet(d, Key("@", "id"))
                    ELSE DictGet(d, Key("@", attr))]]

\* cls.from_dict(d), dispatched on cls.
from_dict(cls, d) ==
    CASE cls = "Relationship" -> Relationship_from_dict(d)
      [] cls = "Source" -> Source_from_dict(d)
      [] cls = "Person" -> Person_from_dict(d)
      [] OTHER -> Field_from_dict(cls, d)

\* An is_searchable that asks addresses for is_searchable, as it asks the
\* other fields.
Person_is_searchable_Lenient(c) ==
    LET searchable(f) == Truthy(is_searchable(f))
    IN  \/ Truthy(c.a["search_pointer"])
        \/ SelectSeq(c.s["names"], searchable) # <<>>
        \/ SelectSeq(c.s["urls"], searchable) # <<>>
        \/ SelectSeq(c.s["addresses"], searchable) # <<>>
        \/ SelectSeq(c.s["user_ids"], searchable) # <<>>
        \/ SelectSeq(c.s["emails"], searchable) # <<>>
        \/ SelectSeq(c.s["phones"], searchable) # <<>>
        \/ SelectSeq(c.s["usernames"], searchable) # <<>>

\* Person.is_searchable
Person_is_searchable(c) ==
    LET searchable(f) == Truthy(is_searchable(f))
        sole(f) == Truthy(Address_is_sole_searchable(f))
    IN  \/ Truthy(c.a["search_pointer"])
        \/ SelectSeq(c.s["names"], searchable) # <<>>
        \/ SelectSeq(c.s["urls"], searchable) # <<>>
        \/ SelectSeq(c.s["addresses"], sole) # <<>>
        \/ SelectSeq(c.s["user_ids"], searchable) # <<>>
        \/ SelectSeq(c.s["emails"], searchable) # <<>>
        \/ SelectSeq(c.s["phones"], searchable) # <<>>
        \/ SelectSeq(c.s["usernames"], searchable) # <<>>

\* An unsearchable_fields that asks addresses for is_sole_searchable.
Person_unsearchable_fields_Sole(c) ==
    LET unsearchable(f) == ~Truthy(is_searchable(f))
        notsole(f) == ~Truthy(Address_is_sole_searchable(f))
        dob == IF c.one["dob"] # None THEN <<c.one["dob"]>> ELSE <<>>
    IN  SelectSeq(c.s["names"], unsearchable) \o SelectSeq(c.s["emails"], unsearchable)
        \o SelectSeq(c.s["phones"], unsearchable) \o SelectSeq(c.s["usernames"], unsearchable)
        \o SelectSeq(c.s["user_ids"], unsearchable) \o SelectSeq(c.s["urls"], unsearchable)
        \o SelectSeq(c.s["addresses"], notsole) \o SelectSeq(dob, unsearchable)

\* An unsearchable_fields that leaves the names out.
Person_unsearchable_fields_NoNames(c) ==
    LET unsearchable(f) == ~Truthy(is_searchable(f))
        dob == IF c.one["dob"] # None THEN <<c.one["dob"]>> ELSE <<>>
    IN  SelectSeq(c.s["emails"], unsearchable)
        \o SelectSeq(c.s["phones"], unsearchable) \o SelectSeq(c.s["usernames"], unsearchable)
        \o SelectSeq(c.s["user_ids"], unsearchable) \o SelectSeq(c.s["urls"], unsearchable)
        \o SelectSeq(c.s["addresses"], unsearchable) \o SelectSeq(dob, unsearchable)

\* Person.unsearchable_fields
Person_unsearchable_fields(c) ==
    LET unsearchable(f) == ~Truthy(is_searchable(f))
        dob == IF c.one["dob"] # None THEN <<c.one["dob"]>> ELSE <<>>
    IN  SelectSeq(c.s["names"], unsearchable) \o SelectSeq(c.s["emails"], unsearchable)
        \o SelectSeq(c.s["phones"], unsearchable) \o SelectSeq(c.s["usernames"], unsearchable)
        \o SelectSeq(c.s["user_ids"], unsearchable) \o SelectSeq(c.s["urls"], unsearchable)
        \o SelectSeq(c.s["addresses"], unsearchable) \o SelectSeq(dob, unsearchable)

(***************************************************************************)
(* Inputs: the argument values the model's callers pass                    *)
(***************************************************************************)
\* The largest number of keyword arguments of one constructor call.
MaxArgs == 2

\* The largest number of keyword arguments of the constructor calls whose
\* results are compared with ==.
MaxEqArgs == 1

Midnight == DateTime(2015, 3, 9, 0, 0, 0)

Afternoon == DateTime(1999, 12, 31, 13, 5, 9)

LeapDay == DateTime(2016, 2, 29, 0, 0, 0)

Year1990 == DateRange(Date(1990, 1, 1), Date(1990, 12, 31))

OpenRange == DateRange(Date(2000, 2, 29), None)

Bogus == PyStr(<<"b", "o", "g", "u", "s">>)

ValidType(cls) == PyStr(CHOOSE ty \in types_set(cls) : TRUE)

\* The values tried for one keyword argument of cls.__init__.
SampleValues(cls, param) ==
    CASE param = "valid_since" -> {Midnight, Afternoon}
      [] param = "last_seen" -> {LeapDay}
      [] param = "inferred" -> {PyBool(TRUE), PyBool(FALSE)}
      [] param = "current" -> {PyBool(TRUE)}
      [] param = "type_" -> {ValidType(cls), Bogus}
      [] param = "display" -> {PyStr(<<"A", "l", " ", "L", "i">>)}
      [] param = "date_range" -> {Year1990, OpenRange}
      [] param = "country_code" -> {PyInt(1)}
      [] param = "number" -> {PyInt(0), PyInt(55512)}
      [] param = "extension" -> {PyInt(7)}
      [] param = "disposable" -> {PyBool(FALSE)}
      [] param = "email_provider" -> {PyBool(TRUE)}
      [] param = "sponsored" -> {PyBool(FALSE), PyBool(TRUE)}
      [] param = "country" -> {PyStr(<<"f", "r">>)}
      [] param = "content" /\ cls = "Gender" ->
            {PyStr(<<"m", "a", "l", "e">>), PyStr(<<"F", "e", "m", "a", "l", "e">>),
             PyStr(<<"x">>)}
      [] param = "content" /\ cls = "Ethnicity" ->
            {PyStr(<<"W", "h", "i", "t", "e">>),
             PyStr(<<"o", "t", "h", "e", "r", "_", "a", "s", "i", "a", "n">>)}
      [] param \in {"first", "raw", "address", "url", "title", "degree", "language",
                    "content"} ->
            {PyStr(<<"A", "l">>), PyStr(<<>>)}
      [] OTHER -> {PyStr(<<"L", "i">>)}

\* The keyword-argument dicts over `params` with at most n arguments.
RECURSIVE KwargsOver(_, _, _)
KwargsOver(cls, params, n) ==
    IF n = 0 \/ params = {} THEN {[x \in {} |-> None]}
    ELSE LET p == CHOOSE q \in params : TRUE
             rest == params \ {p}
         IN  KwargsOver(cls, rest, n)
             \cup {kw @@ (p :> v) : kw \in KwargsOver(cls, rest, n - 1),
                                    v \in SampleValues(cls, p)}

\* The keyword-argument dicts that differ from kw in at most one argument.
Neighbours(cls, kw) ==
    {kw} \cup {[q \in DOMAIN kw \ {p} |-> kw[q]] : p \in DOMAIN kw}
         \cup UNION {{[q \in DOMAIN kw \cup {p} |-> IF q = p THEN v ELSE kw[q]] :
                         v \in SampleValues(cls, p)} : p \in Params(cls)}

(***************************************************************************)
(* State                                                                   *)
(***************************************************************************)
VARIABLES
    fld,      \* the field a caller constructed, or the exception raised
    args,     \* the class and keyword arguments of that constructor call
    wire,     \* fld.to_dict()
    back,     \* type(fld).from_dict(wire), or the exception raised
    other,    \* a second field of fld's class
    wire2,    \* other.to_dict()
    eqres,    \* fld == other
    fpc,      \* the field caller's position: start, built, raised, encoded, ...
    cont,     \* the container a caller works on, or the exception raised
    given,    \* the dict the container was decoded from (None: constructed)
    base,     \* the container as its construction left it
    added,    \* the fields add_fields calls have put in cont since, in order
    batch,    \* the argument of the last add_fields call
    before,   \* cont as the last add_fields call found it (None: no call yet)
    raised,   \* the exception the last add_fields call raised, or None
    listed,   \* cont.all_fields
    asked,    \* is_searchable of fld, or of cont with its unsearchable_fields
    cwire,    \* cont.to_dict()
    cback,    \* type(cont).from_dict(cwire), or the exception raised
    cpc,      \* the container caller's position: start, open, failed, ...
    today,    \* datetime.date.today() as the last call that read it saw it
    call,     \* the DateRange or DOB factory call made: [fn, a, b]
    made,     \* what that call returned, or the exception raised
    age,      \* made.age, once asked
    fc,       \* a FieldCount, or the exception raised
    fcwire,   \* the dict fc was encoded to or decoded from
    fcback,   \* FieldCount.from_dict(fcwire)
    dcls,     \* the class whose from_dict is called on dwire
    dwire,    \* a dict as it arrives from the API
    dgot,     \* dcls.from_dict(dwire), or the exception raised
    assigned, \* the values assigned to the `type` of fld or cont, in order
    req,      \* a SearchAPIRequest: its settings and the arguments it was made
              \* with; its person is cont
    found,    \* the caller's Person as SearchAPIRequest(...) found it, or None
    sent,     \* the queries posted to the API, in order
    outcome,  \* what send returned or raised, or None
    rpc,      \* the request caller's position: start, built, sent, ...
    tpc,      \* the thread send_async started: its position and its locals
    calls,    \* the invocations of the callback of send_async, in order
    heap,     \* the field objects made, each with its identity
    boxes     \* the container instances made, in order of construction

fieldVars == <<fld, args, wire, back, other, wire2, eqres, fpc>>

contVars == <<cont, given, base, added, batch, before, raised, listed, asked, cwire, cback, cpc>>

dateVars == <<today, call, made, age>>

countVars == <<fc, fcwire, fcback>>

decodeVars == <<dcls, dwire, dgot>>

requestVars == <<req, found, sent, outcome, rpc, tpc, calls>>

ownerVars == <<heap, boxes>>

\* The variables the field operations leave alone.
beyondField == <<contVars, dateVars, countVars, decodeVars, assigned, requestVars, ownerVars>>

\* The variables the container operations leave alone.
beyondCont == <<fieldVars, dateVars, countVars, decodeVars, assigned, requestVars, ownerVars>>

\* The variables the DateRange and DOB calls leave alone.
beyondDates == <<fieldVars, contVars, countVars, decodeVars, assigned, requestVars, ownerVars>>

\* The variables the FieldCount operations leave alone.
beyondCount == <<fieldVars, contVars, dateVars, decodeVars, assigned, requestVars, ownerVars>>

\* The variables the decoding of an API dict leaves alone.
beyondDecode == <<fieldVars, contVars, dateVars, countVars, assigned, requestVars, ownerVars>>

\* The variables the requests leave alone, the person apart.
beyondRequest == <<fieldVars, dateVars, countVars, decodeVars, assigned, ownerVars>>

\* The variables the making and the filling of identified objects leave alone.
beyondOwner == <<fieldVars, contVars, dateVars, countVars, decodeVars, assigned, requestVars>>

vars == <<fieldVars, contVars, dateVars, countVars, decodeVars, assigned, requestVars,
          ownerVars>>

\* No field and no container has been made yet.
Init ==
    /\ fld = None
    /\ args = None
    /\ wire = None
    /\ back = None
    /\ other = None
    /\ wire2 = None
    /\ eqres = None
    /\ fpc = "start"
    /\ cont = None
    /\ given = None
    /\ base = None
    /\ added = <<>>
    /\ batch = <<>>
    /\ before = None
    /\ raised = None
    /\ listed = <<>>
    /\ asked = None
    /\ cwire = None
    /\ cback = None
    /\ cpc = "start"
    /\ today = None
    /\ call = None
    /\ made = None
    /\ age = None
    /\ fc = None
    /\ fcwire = None
    /\ fcback = None
    /\ dcls = "none"
    /\ dwire = None
    /\ dgot = None
    /\ assigned = <<>>
    /\ req = None
    /\ found = None
    /\ sent = <<>>
    /\ outcome = None
    /\ rpc = "start"
    /\ tpc = [at |-> "none"]
    /\ calls = <<>>
    /\ heap = <<>>
    /\ boxes = <<>>

(***************************************************************************)
(* Field operations                                                        *)
(***************************************************************************)
\* fld = cls(**kw) with at most n keyword arguments.
NewFieldWith(n) ==
    /\ fpc = "start"
    /\ \E cls \in FieldClasses :
         \E kw \in KwargsOver(cls, Params(cls), n) :
            /\ fld' = Construct(cls, kw)
            /\ args' = [cls |-> cls, kw |-> kw]
            /\ fpc' = IF IsExc(Construct(cls, kw)) THEN "raised" ELSE "built"
    /\ UNCHANGED <<wire, back, other, wire2, eqres, beyondField>>

NewField == NewFieldWith(MaxArgs)

\* wire = fld.to_dict()
Encode ==
    /\ fpc = "built"
    /\ wire' = Field_to_dict(fld)
    /\ fpc' = "encoded"
    /\ UNCHANGED <<fld, args, back, other, wire2, eqres, beyondField>>

\* back = type(fld).from_dict(wire)
Decode ==
    /\ fpc = "encoded"
    /\ back' = Field_from_dict(fld.cls, wire)
    /\ fpc' = "decoded"
    /\ UNCHANGED <<fld, args, wire, other, wire2, eqres, beyondField>>

NewFieldForEq == NewFieldWith(MaxEqArgs)

\* other = cls(**kw2), for keyword arguments that differ from fld's in at
\* most one argument.
NewOther ==
    /\ fpc = "built"
    /\ \E kw \in Neighbours(args.cls, args.kw) :
         /\ ~IsExc(Construct(args.cls, kw))
         /\ other' = Construct(args.cls, kw)
    /\ fpc' = "pair"
    /\ UNCHANGED <<fld, args, wire, back, wire2, eqres, beyondField>>

\* eqres = (fld == other), and both fields are encoded.
Compare ==
    /\ fpc = "pair"
    /\ eqres' = Field_eq(fld, other)
    /\ wire' = Field_to_dict(fld)
    /\ wire2' = Field_to_dict(other)
    /\ fpc' = "compared"
    /\ UNCHANGED <<fld, args, back, other, beyondField>>

FieldNext == NewField \/ Encode \/ Decode

EqNext == NewFieldForEq \/ NewOther \/ Compare

\* A caller constructs a field, encodes it and decodes the result.
SpecField == Init /\ [][FieldNext]_vars

\* A caller constructs two fields of one class and compares them.
SpecEq == Init /\ [][EqNext]_vars

(***************************************************************************)
(* Claims about the Field round trip and Field equality                    *)
(***************************************************************************)
\* The constructor call cls(**kw) made a populated, valid field f: some
\* argument was given, every argument was stored (an invalid type or gender
\* is stored as None) and holds a value to_dict keeps (not an empty
\* string), and its datetimes carry no time of day (the wire format is
\* date-only).
DateOnly(v) == v.t = "datetime" => (v.hh = 0 /\ v.mi = 0 /\ v.ss = 0)

PopulatedValid(kw, f) ==
    /\ DOMAIN kw # {}
    /\ \A a \in InstAttrs(f.cls) :
          ParamOf(a) \in DOMAIN kw =>
              /\ f.a[a] # None
              /\ Emitted(EncodeValue(f.a[a]))
              /\ DateOnly(f.a[a])

\* Two fields of one class with the same value in every attribute.
SameAttributes(f, g) ==
    /\ f.cls = g.cls
    /\ \A a \in InstAttrs(f.cls) : f.a[a] = g.a[a]

\* C1: for every populated, valid field f of every variant, including
\* fields whose valid_since / last_seen hold datetimes and fields with a
\* nested DateRange, cls.from_dict(f.to_dict()) succeeds and returns a
\* field with the same attributes and values as f.
C1_RoundTrip ==
    (fpc = "decoded" /\ PopulatedValid(args.kw, fld)) =>
        (~IsExc(back) /\ SameAttributes(back, fld))

\* The part of C1 that the code keeps: the round trip of a populated, valid
\* field that holds no datetime.
HoldsDatetime(f) == \E a \in InstAttrs(f.cls) : f.a[a].t = "datetime"

C1_RoundTripWithoutDatetime ==
    (fpc = "decoded" /\ PopulatedValid(args.kw, fld) /\ ~HoldsDatetime(fld)) =>
        (~IsExc(back) /\ SameAttributes(back, fld))

\* The attributes __repr__ reads: all but the "display..." ones.
ComparedAttrs(cls) ==
    (Range(base_attributes) \cup Range(attributes(cls)) \cup Range(children(cls)))
        \ {"display", "display_international"}

\* A dict without its display keys.
WithoutDisplay(d) ==
    [k \in DOMAIN d \ {Key("", "display"), Key("", "display_international")} |-> d[k]]

\* C10 as stated: two fields of one variant are equal (==) if and only if
\* their to_dict outputs, display included, are equal.
C10_EqualIffSameDict ==
    fpc = "compared" => (eqres <=> (wire = wire2))

\* C10 as amended: two fields of one variant are equal (==) if and only if
\* every attribute other than display and display_international has the
\* same value in both (an attribute that is None counting as absent); and
\* equal fields have to_dict outputs that agree on every key other than the
\* display keys.
C10_EqualIffSameAttributes ==
    fpc = "compared" =>
        /\ eqres <=> (\A a \in ComparedAttrs(fld.cls) : GetAttr(fld, a) = GetAttr(other, a))
        /\ eqres => (WithoutDisplay(wire) = WithoutDisplay(wire2))

\* Two fields that differ only in display have been compared, and were
\* found equal.
C10_Witness ==
    /\ fpc = "compared"
    /\ eqres
    /\ wire # wire2
    /\ fld.cls = "Name"

(***************************************************************************)
(* Container operations                                                    *)
(***************************************************************************)
\* The largest number of fields a container of the add_fields callers
\* holds.
MaxFields == 3

\* The largest number of fields of one add_fields call.
MaxBatch == 2

NameAl == Construct("Name", "first" :> PyStr(<<"A", "l">>))

NameLi == Construct("Name", "first" :> PyStr(<<"L", "i">>))

EmailAl == Construct("Email", "address" :> PyStr(<<"a", "l", "@", "x", ".", "i", "o">>))

GenderMale == Construct("Gender", "content" :> PyStr(<<"m", "a", "l", "e">>))

GenderFemale == Construct("Gender", "content" :> PyStr(<<"f", "e", "m", "a", "l", "e">>))

\* An object of a class no container declares, such as object().
Unknown == [cls |-> "Unknown", a |-> EmptyDict]

\* The fields the add_fields callers pass.
AddSamples == {NameAl, NameLi, EmailAl, GenderMale, GenderFemale, Unknown}

\* The elements of the "names" arrays the callers decode.
WireNames ==
    {PyDict(Key("", "first") :> PyStr(<<"A", "l">>)),
     PyDict(Key("", "first") :> PyStr(<<"L", "i">>)),
     PyDict(Key("", "first") :> PyStr(<<"B", "o">>) @@ Key("", "last") :> PyStr(<<"E", "k">>))}

\* The sequences over a set with at most n elements.
SeqsUpTo(set, n) == UNION {[1..k -> set] : k \in 0..n}

\* The number of fields a container holds.
Held(c) == Len(all_fields(c))

\* cont = cls(), for one of the container classes `classes`.
NewContainerIn(classes) ==
    /\ cpc = "start"
    /\ \E cls \in classes :
         /\ cont' = NewContainerOf(cls, <<>>, EmptyDict)
         /\ base' = NewContainerOf(cls, <<>>, EmptyDict)
    /\ cpc' = "open"
    /\ UNCHANGED <<given, added, batch, before, raised, listed, asked, cwire, cback, beyondCont>>

NewContainer == NewContainerIn(ContainerClasses)

\* cont = cls.from_dict(d), for one of the container classes `classes` and
\* one of the dicts ds.
DecodeWireFrom(classes, ds) ==
    /\ cpc = "start"
    /\ \E cls \in classes, d \in ds :
         /\ given' = PyDict(d)
         /\ cont' = from_dict(cls, d)
         /\ base' = from_dict(cls, d)
         /\ cpc' = IF IsExc(from_dict(cls, d)) THEN "failed" ELSE "open"
    /\ UNCHANGED <<added, batch, before, raised, listed, asked, cwire, cback, beyondCont>>

\* The dicts with a "names" array of at most n elements.
NamesWires(n) ==
    {IF seq = <<>> THEN EmptyDict ELSE Key("", "names") :> PyList(seq) :
        seq \in SeqsUpTo(WireNames, n)}

DecodeWire == DecodeWireFrom(ContainerClasses, NamesWires(MaxFields))

\* The fields of an add_fields argument that precede its first field of a
\* class that cls does not declare: the ones the loop reaches and accepts.
RECURSIVE Accepted(_, _)
Accepted(cls, fields) ==
    IF fields = <<>> THEN <<>>
    ELSE IF Head(fields).cls \in
                {class_container(cls)[i][1] : i \in DOMAIN class_container(cls)}
                \cup {singular_fields(cls)[i][1] : i \in DOMAIN singular_fields(cls)}
         THEN <<Head(fields)>> \o Accepted(cls, Tail(fields))
         ELSE <<>>

\* cont.add_fields(fields), for at most maxBatch of the fields `samples`,
\* while the container has been given at most maxFields fields.
AddFieldsFrom(samples, maxBatch, maxFields) ==
    /\ cpc = "open"
    /\ \E n \in 0..maxBatch :
         /\ Held(base) + Len(added) + n <= maxFields
         /\ \E fields \in [1..n -> samples] :
              LET result == add_fields(cont, fields)
              IN  /\ cont' = result.obj
                  /\ raised' = result.exc
                  /\ batch' = fields
                  /\ before' = cont
                  /\ added' = added \o Accepted(cont.cls, fields)
    /\ UNCHANGED <<given, base, listed, asked, cwire, cback, cpc, beyondCont>>

AddFields == AddFieldsFrom(AddSamples, MaxBatch, MaxFields)

\* listed = cont.all_fields
ListAll ==
    /\ cpc = "open"
    /\ listed' = all_fields(cont)
    /\ cpc' = "listed"
    /\ UNCHANGED <<cont, given, base, added, batch, before, raised, asked, cwire, cback,
                 beyondCont>>

\* cwire = cont.to_dict()
EncodeContainer ==
    /\ cpc = "open"
    /\ cwire' = PyDict(to_dict(cont))
    /\ cpc' = "encoded"
    /\ UNCHANGED <<cont, given, base, added, batch, before, raised, listed, asked, cback,
                 beyondCont>>

AddNext == NewContainer \/ DecodeWire \/ AddFields \/ ListAll \/ EncodeContainer

\* A caller makes or decodes a container, adds fields to it, and lists or
\* encodes it.
SpecAdd == Init /\ [][AddNext]_vars

(***************************************************************************)
(* Searchability of a Person                                               *)
(***************************************************************************)
\* The largest number of fields of the persons whose searchability is asked.
MaxSearchFields == 2

NameAlLi == Construct("Name", "first" :> PyStr(<<"A", "l">>) @@ "last" :> PyStr(<<"L", "i">>))

NameShort == Construct("Name", "first" :> PyStr(<<"A">>) @@ "last" :> PyStr(<<"L", "i">>))

UrlSite == Construct("URL", "url" :> PyStr(<<"x", ".", "i", "o">>))

UrlNamed == Construct("URL", "name" :> PyStr(<<"b", "l", "o", "g">>))

UserIDFull == Construct("UserID", "content" :> PyStr(<<"1", "@", "f", "b">>))

UserIDBare == Construct("UserID", "content" :> PyStr(<<"1", "@">>))

EmailBad == Construct("Email", "address" :> PyStr(<<"a", "l">>))

PhoneFull == Construct("Phone", "country_code" :> PyInt(1) @@ "number" :> PyInt(55512))

PhoneBare == Construct("Phone", "number" :> PyInt(55512))

UsernameLong == Construct("Username", "content" :> PyStr(<<"a", "b", "c", "d">>))

UsernameShort == Construct("Username", "content" :> PyStr(<<"a", "b">>))

AddressRaw == Construct("Address", "raw" :> PyStr(<<"1", " ", "E", "l", "m">>))

AddressCity == Construct("Address", "city" :> PyStr(<<"E", "l", "y">>))

AddressFull ==
    Construct("Address", "city" :> PyStr(<<"E", "l", "y">>) @@ "street" :> PyStr(<<"E", "l", "m">>)
                         @@ "house" :> PyStr(<<"1">>))

AddressBare == Construct("Address", EmptyDict)

DobKnown == Construct("DOB", "date_range" :> Year1990)

DobBare == Construct("DOB", EmptyDict)

\* The fields the persons asked for their searchability are given.
SearchSamples ==
    {NameAlLi, NameShort, UrlSite, UrlNamed, UserIDFull, UserIDBare, EmailAl, EmailBad,
     PhoneFull, PhoneBare, UsernameLong, UsernameShort, AddressRaw, AddressCity,
     AddressFull, AddressBare, DobKnown, DobBare, GenderMale}

\* The dicts that hold a search pointer, empty or not.
PointerWires ==
    {Key("@", "search_pointer") :> PyStr(<<"s", "p">>),
     Key("@", "search_pointer") :> PyStr(<<>>)}

NewPerson == NewContainerIn({"Person"})

DecodePointer == DecodeWireFrom({"Person"}, PointerWires)

AddSearchField == AddFieldsFrom(SearchSamples, 1, MaxSearchFields)

\* asked = cont.is_searchable and cont.unsearchable_fields
Ask ==
    /\ cpc = "open"
    /\ asked' = [searchable |-> Person_is_searchable(cont),
                 unsearchable |-> Person_unsearchable_fields(cont)]
    /\ cpc' = "asked"
    /\ UNCHANGED <<cont, given, base, added, batch, before, raised, listed, cwire, cback,
                   beyondCont>>

SearchNext == NewPerson \/ DecodePointer \/ AddSearchField \/ Ask

\* A caller makes a person, with a search pointer or without, gives it
\* fields and asks whether it is searchable.
SpecSearch == Init /\ [][SearchNext]_vars

(***************************************************************************)
(* Encoding and decoding a container                                       *)
(***************************************************************************)
\* The largest number of fields of the containers that are encoded.
MaxCodecFields == 2

\* The largest number of scalar attributes a caller assigns.
MaxScalars == 2

\* The largest number of keys of the person dicts that are decoded.
MaxKeys == 3

NameSince == Construct("Name", "first" :> PyStr(<<"A", "l">>) @@ "valid_since" :> Midnight)

\* The fields the encoded containers are given.
CodecFields == {NameAl, NameSince, EmailAl, DobKnown}

\* The values a caller assigns to the scalar attributes of a container.
ScalarSamples(cls) ==
    CASE cls = "Person" ->
            {<<"person_id", PyStr(<<"p", "1">>)>>, <<"inferred", PyBool(FALSE)>>,
             <<"match", PyFloat(5)>>}
      [] cls = "Source" ->
            {<<"premium", PyBool(FALSE)>>, <<"premium", PyBool(TRUE)>>,
             <<"sponsored", PyBool(FALSE)>>, <<"valid_since", Midnight>>,
             <<"name", PyStr(<<"x">>)>>}
      [] cls = "Relationship" ->
            {<<"type", PyStr(<<"f", "r", "i", "e", "n", "d">>)>>, <<"inferred", PyBool(FALSE)>>,
             <<"inferred", PyBool(TRUE)>>, <<"valid_since", Midnight>>}

\* The values a person dict may hold under each of its keys.
KeySamples ==
    (Key("@", "id") :> {PyStr(<<"p", "1">>)})
    @@ (Key("", "names") :>
           {PyList(<<PyDict(Key("", "first") :> PyStr(<<"A", "l">>))>>),
            PyList(<<PyDict(Key("", "first") :> PyStr(<<"A", "l">>)
                            @@ Key("@", "valid_since") :> PyStr(<<"2", "0", "1", "5", "-", "0", "3", "-", "0", "9">>))>>)})
    @@ (Key("", "emails") :>
           {PyList(<<PyDict(Key("", "address") :> PyStr(<<"a", "l", "@", "x", ".", "i", "o">>))>>),
            PyList(<<PyDict(Key("", "address") :> PyStr(<<"a", "l", "@", "x", ".", "i", "o">>)
                            @@ Key("", "display") :> PyStr(<<"a", "l", "@", "x", ".", "i", "o">>))>>)})
    @@ (Key("", "gender") :>
           {PyDict(Key("", "content") :> PyStr(<<"m", "a", "l", "e">>) @@ Key("", "display") :> PyStr(<<"M", "a", "l", "e">>))})

\* The person dicts with at most n of these keys.
PersonWires(n) ==
    UNION {{d \in [keys -> UNION {KeySamples[k] : k \in keys}] :
               \A k \in keys : d[k] \in KeySamples[k]} :
           keys \in {ks \in SUBSET DOMAIN KeySamples : Cardinality(ks) <= n}}

DecodePerson == DecodeWireFrom({"Person"}, PersonWires(MaxKeys))

AddCodecField == AddFieldsFrom(CodecFields, 1, MaxCodecFields)

\* cont.attr = v, for a scalar attribute of a container that was
\* constructed.
SetAttr ==
    /\ cpc = "open"
    /\ given = None
    /\ Cardinality({a \in DOMAIN cont.a : cont.a[a] # None}) < MaxScalars
    /\ \E pair \in ScalarSamples(cont.cls) :
         /\ cont.a[pair[1]] = None
         /\ cont' = [cont EXCEPT !.a[pair[1]] = pair[2]]
    /\ UNCHANGED <<given, base, added, batch, before, raised, listed, asked, cwire, cback,
                   cpc, beyondCont>>

\* cback = type(cont).from_dict(cwire)
DecodeBack ==
    /\ cpc = "encoded"
    /\ cback' = from_dict(cont.cls, cwire.d)
    /\ cpc' = "decoded"
    /\ UNCHANGED <<cont, given, base, added, batch, before, raised, listed, asked, cwire,
                   beyondCont>>

CodecNext ==
    NewContainer \/ DecodePerson \/ AddCodecField \/ SetAttr \/ EncodeContainer
        \/ DecodeBack

\* A caller makes a container and populates it, or decodes a person dict,
\* then encodes the container and decodes the result.
SpecCodec == Init /\ [][CodecNext]_vars

(***************************************************************************)
(* Claims about add_fields, all_fields and the order of the slots          *)
(***************************************************************************)
\* The field classes a container class declares for a plural slot, and for
\* a singular slot.
PluralClasses(cls, slot) ==
    {class_container(cls)[i][1] :
        i \in {j \in DOMAIN class_container(cls) : class_container(cls)[j][2] = slot}}

SingularClasses(cls, slot) ==
    {singular_fields(cls)[i][1] :
        i \in {j \in DOMAIN singular_fields(cls) : singular_fields(cls)[j][2] = slot}}

Declared(cls) ==
    {class_container(cls)[i][1] : i \in DOMAIN class_container(cls)}
        \cup {singular_fields(cls)[i][1] : i \in DOMAIN singular_fields(cls)}

\* The fields of a sequence whose class is one of `classes`, in order.
OfClasses(fields, classes) == SelectSeq(fields, LAMBDA f : f.cls \in classes)

\* What a singular slot holds after `fields` were added to it in order.
LastOr(fields, held) == IF fields = <<>> THEN held ELSE fields[Len(fields)]

\* A dict's array under an unprefixed key; empty when the key is absent.
ArrayOf(d, slot) == IF Key("", slot) \in DOMAIN d THEN d[Key("", slot)].l ELSE <<>>

\* C4: a decoded container that is re-encoded has, in every plural slot's
\* array, the elements of the decoded array in their order, followed by the
\* encodings of the fields add_fields calls have added to the slot since,
\* in the order they were added.
C4_OrderPreserved ==
    cpc = "encoded" =>
        \A slot \in PluralSlots :
            LET new == OfClasses(added, PluralClasses(cont.cls, slot))
                old == IF given = None THEN <<>> ELSE ArrayOf(given.d, slot)
            IN  ArrayOf(cwire.d, slot)
                    = old \o [i \in DOMAIN new |-> PyDict(Field_to_dict(new[i]))]

\* A dict whose "names" array holds three different elements was decoded and
\* re-encoded.
C4_Witness ==
    /\ cpc = "encoded"
    /\ given # None
    /\ Len(ArrayOf(given.d, "names")) = 3
    /\ \A i, j \in 1..3 : i # j => given.d[Key("", "names")].l[i] # given.d[Key("", "names")].l[j]
    /\ ArrayOf(cwire.d, "names") = ArrayOf(given.d, "names")

\* C5: after any sequence of add_fields calls every plural slot holds what
\* it held at construction followed by the added fields of its declared
\* class, in the order they were added, and every singular slot holds the
\* most recently added field of its class (what it held at construction
\* when none was added).
C5_Dispatch ==
    cpc = "open" =>
        /\ \A slot \in PluralSlots :
              cont.s[slot] = base.s[slot] \o OfClasses(added, PluralClasses(cont.cls, slot))
        /\ \A slot \in {"gender", "dob"} :
              cont.one[slot] = LastOr(OfClasses(added, SingularClasses(cont.cls, slot)),
                                      base.one[slot])

\* Two genders and a name were added; the gender slot holds the later one.
C5_Witness ==
    /\ cpc = "open"
    /\ added = <<GenderMale, NameAl, GenderFemale>>
    /\ cont.one["gender"] = GenderFemale
    /\ cont.s["names"] = <<NameAl>>

\* The positions of the fields of an undeclared class in an add_fields
\* argument.
Undeclared(cls, fields) == {i \in DOMAIN fields : fields[i].cls \notin Declared(cls)}

FirstOf(set) == CHOOSE i \in set : \A j \in set : i <= j

\* C6 as stated: an add_fields call with a field of an undeclared class
\* raises ValueError and leaves the container as it was before the call.
C6_RaisesBeforeAdding ==
    (cpc = "open" /\ before # None /\ Undeclared(cont.cls, batch) # {}) =>
        (raised = Exc("ValueError") /\ cont = before)

\* C6 as amended: an add_fields call raises ValueError if and only if its
\* argument has a field of an undeclared class; the fields that precede the
\* first such field have then been added to their slots, and that field and
\* the fields after it have not.
C6_RaisesAfterPrefix ==
    (cpc = "open" /\ before # None) =>
        LET bad == Undeclared(cont.cls, batch)
            done == IF bad = {} THEN batch ELSE SubSeq(batch, 1, FirstOf(bad) - 1)
        IN  /\ raised = IF bad = {} THEN None ELSE Exc("ValueError")
            /\ \A slot \in PluralSlots :
                  cont.s[slot]
                      = before.s[slot] \o OfClasses(done, PluralClasses(cont.cls, slot))
            /\ \A slot \in {"gender", "dob"} :
                  cont.one[slot]
                      = LastOr(OfClasses(done, SingularClasses(cont.cls, slot)),
                               before.one[slot])

\* add_fields([Name(...), Unknown()]) has raised ValueError, and the name is
\* in the names slot.
C6_Witness ==
    /\ cpc = "open"
    /\ raised = Exc("ValueError")
    /\ batch = <<NameAl, Unknown>>
    /\ before.s["names"] = <<>>
    /\ cont.s["names"] = <<NameAl>>

\* The place of a field class in all_fields: the plural classes in declared
\* order, then the singular classes in declared order.
Rank(cls, fcls) ==
    LET cc == class_container(cls)
        sf == singular_fields(cls)
    IN  IF \E i \in DOMAIN cc : cc[i][1] = fcls
        THEN CHOOSE i \in DOMAIN cc : cc[i][1] = fcls
        ELSE Len(cc) + (CHOOSE i \in DOMAIN sf : sf[i][1] = fcls)

\* C7: all_fields holds the fields of every plural slot, in the slot's
\* order, and every populated singular slot's field, each once and nothing
\* else, ordered by declared slot: plural slots first, singular slots last.
C7_AllFields ==
    cpc = "listed" =>
        /\ \A i \in DOMAIN listed : listed[i].cls \in Declared(cont.cls)
        /\ \A slot \in PluralSlots :
              OfClasses(listed, PluralClasses(cont.cls, slot)) = cont.s[slot]
        /\ \A slot \in {"gender", "dob"} :
              OfClasses(listed, SingularClasses(cont.cls, slot))
                  = IF cont.one[slot] = None THEN <<>> ELSE <<cont.one[slot]>>
        /\ \A i, j \in DOMAIN listed :
              i < j => Rank(cont.cls, listed[i].cls) <= Rank(cont.cls, listed[j].cls)

\* A gender, an email and a name were added in that order and are listed
\* name, email, gender.
C7_Witness ==
    /\ cpc = "listed"
    /\ added = <<GenderMale, EmailAl, NameAl>>
    /\ listed = <<NameAl, EmailAl, GenderMale>>

(***************************************************************************)
(* Claims about the searchability of a Person                              *)
(***************************************************************************)
\* The elements of a sequence.
Elements(seq) == {seq[i] : i \in DOMAIN seq}

\* The sole-searchable rule of an address: raw present, or city and street
\* and house all present.
SoleRule(f) ==
    \/ Truthy(f.a["raw"])
    \/ (Truthy(f.a["city"]) /\ Truthy(f.a["street"]) /\ Truthy(f.a["house"]))

\* The fields of the kinds that are asked for their own is_searchable.
OwnRuleFields(c) ==
    UNION {Elements(c.s[slot]) :
              slot \in {"names", "urls", "user_ids", "emails", "phones", "usernames"}}

\* C8: a person is searchable if and only if it has a search pointer, or
\* one of its names, urls, user ids, emails, phones or usernames satisfies
\* its own is_searchable, or one of its addresses satisfies the
\* sole-searchable rule; so a person without a search pointer whose own-rule
\* fields are all unsearchable and whose addresses are none sole-searchable
\* is not searchable, whatever its dob and gender.
C8_PersonSearchable ==
    cpc = "asked" =>
        /\ asked.searchable <=>
              \/ Truthy(cont.a["search_pointer"])
              \/ \E f \in OwnRuleFields(cont) : Truthy(is_searchable(f))
              \/ \E f \in Elements(cont.s["addresses"]) : SoleRule(f)
        /\ (/\ ~Truthy(cont.a["search_pointer"])
            /\ \A f \in OwnRuleFields(cont) : ~Truthy(is_searchable(f))
            /\ \A f \in Elements(cont.s["addresses"]) : ~SoleRule(f))
               => ~asked.searchable

\* A person that holds an address with only a city, and a dob, was asked
\* and is not searchable.
C8_Witness ==
    /\ cpc = "asked"
    /\ ~asked.searchable
    /\ cont.s["addresses"] = <<AddressCity>>
    /\ cont.one["dob"] = DobKnown

\* The fields unsearchable_fields looks at.
Looked(c) ==
    UNION {Elements(c.s[slot]) :
              slot \in {"names", "emails", "phones", "usernames", "user_ids", "urls",
                        "addresses"}}
        \cup (IF c.one["dob"] = None THEN {} ELSE {c.one["dob"]})

\* The rule Person.is_searchable applies to a field: the sole-searchable
\* rule to an address, the field's own is_searchable to the others.
RuleOfPerson(f) == IF f.cls = "Address" THEN SoleRule(f) ELSE Truthy(is_searchable(f))

\* C9 as stated: a name, email, phone, username, user id, url, address or
\* dob of the person is in unsearchable_fields if and only if it does not
\* satisfy the rule Person.is_searchable applies to its kind.
C9_ComplementOfPersonRule ==
    cpc = "asked" =>
        \A f \in Looked(cont) : (f \in Elements(asked.unsearchable)) <=> ~RuleOfPerson(f)

\* C9 as amended: a name, email, phone, username, user id, url, address or
\* dob of the person is in unsearchable_fields if and only if its own
\* is_searchable is false, which for an address is the lenient rule (raw,
\* country, state or city present), not the sole-searchable rule that
\* Person.is_searchable applies; and the list holds nothing else.
C9_ComplementOfOwnRule ==
    cpc = "asked" =>
        /\ \A f \in Looked(cont) :
              (f \in Elements(asked.unsearchable)) <=> ~Truthy(is_searchable(f))
        /\ Elements(asked.unsearchable) \subseteq Looked(cont)

\* A person that holds an address with only a city and an address with
\* nothing was asked: the first is not in the list, the second is.
C9_Witness ==
    /\ cpc = "asked"
    /\ cont.s["addresses"] = <<AddressCity, AddressBare>>
    /\ asked.unsearchable = <<AddressBare>>

(***************************************************************************)
(* Claims about the round trips of a container                             *)
(***************************************************************************)
\* C2: a Person, Source or Relationship made of valid fields and scalar
\* attributes, encoded and decoded, comes back with the same scalar
\* attribute values and the same fields in the same slots.
C2_ContainerRoundTrip ==
    (cpc = "decoded" /\ given = None) =>
        /\ ~IsExc(cback)
        /\ cback.a = cont.a
        /\ cback.s = cont.s
        /\ cback.one = cont.one

\* C3: a person dict of recognized keys and valid values, decoded and
\* encoded, comes back as the same dict.
C3_DictRoundTrip ==
    (cpc = "encoded" /\ given # None /\ cont = base) => cwire = given

(***************************************************************************)
(* DateRange and DOB calls                                                 *)
(***************************************************************************)
\* The largest age given to DOB.from_age and DOB.from_age_range, next to the
\* ages that reach back to the first years of the calendar.
MaxAge == 2

\* The days on which the calls are made.
Todays ==
    {Date(2026, 1, 1), Date(2026, 7, 1), Date(2026, 7, 2), Date(2026, 12, 31),
     Date(2024, 2, 29)}

\* The dates given to the DateRange constructor.
RangeDates == {Date(1990, 1, 1), Date(1990, 12, 31), Date(2000, 2, 29)}

\* The strings of a date_range dict: dates, an empty string, no date.
RangeStrings ==
    {date_to_str(v) : v \in RangeDates}
    \cup {PyStr(<<>>), PyStr(<<"1", "9", "9", "0", "-", "1", "3", "-", "0", "1">>)}

\* The dicts given to DateRange.from_dict.
RangeWires ==
    {[k \in {} |-> None]}
    \cup {(Key("", "start") :> v) : v \in RangeStrings}
    \cup {(Key("", "end") :> v) : v \in RangeStrings}
    \cup {(Key("", "start") :> v) @@ (Key("", "end") :> w) :
             v \in RangeStrings, w \in RangeStrings}

\* The years given to from_years_range and from_birth_year.
Years == {-1, 0, 1, 1999, 2000, 2001, 9999, 10000}

\* The ages given to from_age and from_age_range on the day t.
Ages(t) == (-1..MaxAge) \cup {t.y - 2, t.y - 1}

\* The birth dates given to from_birth_date on the day t.
BirthDates(t) == {Date(2000, 2, 29), AddDays(t, -1), t, AddDays(t, 1)}

\* x is a DOB, and not an exception or a DateRange.
IsDOB(x) == "cls" \in DOMAIN x /\ x.cls = "DOB"

\* x is a DateRange.
IsRange(x) == "t" \in DOMAIN x /\ x.t = "DateRange"

\* made = DateRange(start, end)
NewRange ==
    /\ call = None
    /\ \E start \in RangeDates \cup {None}, end \in RangeDates \cup {None} :
          /\ call' = [fn |-> "DateRange", a |-> start, b |-> end]
          /\ made' = DateRange(start, end)
    /\ UNCHANGED <<today, age, beyondDates>>

\* made = DateRange.from_dict(d)
RangeFromDict ==
    /\ call = None
    /\ \E d \in RangeWires :
          /\ call' = [fn |-> "from_dict", a |-> PyDict(d), b |-> None]
          /\ made' = DateRange_from_dict(PyDict(d))
    /\ UNCHANGED <<today, age, beyondDates>>

\* made = DateRange.from_years_range(y1, y2)
FromYearsRange ==
    /\ call = None
    /\ \E y1 \in Years, y2 \in Years :
          /\ call' = [fn |-> "from_years_range", a |-> PyInt(y1), b |-> PyInt(y2)]
          /\ made' = DateRange_from_years_range(y1, y2)
    /\ UNCHANGED <<today, age, beyondDates>>

\* made = DOB.from_birth_year(y)
FromBirthYear ==
    /\ call = None
    /\ \E y \in Years :
          /\ call' = [fn |-> "from_birth_year", a |-> PyInt(y), b |-> None]
          /\ made' = DOB_from_birth_year(y)
    /\ UNCHANGED <<today, age, beyondDates>>

\* made = DOB.from_birth_date(d) on the day t
FromBirthDate ==
    /\ call = None
    /\ \E t \in Todays :
          \E d \in BirthDates(t) :
             /\ today' = t
             /\ call' = [fn |-> "from_birth_date", a |-> d, b |-> None]
             /\ made' = DOB_from_birth_date(d, t)
    /\ UNCHANGED <<age, beyondDates>>

\* made = DOB.from_age(n) on the day t
FromAge ==
    /\ call = None
    /\ \E t \in Todays :
          \E n \in Ages(t) :
             /\ today' = t
             /\ call' = [fn |-> "from_age", a |-> PyInt(n), b |-> None]
             /\ made' = DOB_from_age(n, t)
    /\ UNCHANGED <<age, beyondDates>>

\* made = DOB.from_age_range(n1, n2) on the day t
FromAgeRange ==
    /\ call = None
    /\ \E t \in Todays :
          \E n1 \in Ages(t), n2 \in Ages(t) :
             /\ today' = t
             /\ call' = [fn |-> "from_age_range", a |-> PyInt(n1), b |-> PyInt(n2)]
             /\ made' = DOB_from_age_range(n1, n2, t)
    /\ UNCHANGED <<age, beyondDates>>

\* age = made.age, asked of a DOB on the day t
AskAge ==
    /\ call # None
    /\ age = None
    /\ IsDOB(made)
    /\ \E t \in Todays : age' = [on |-> t, is |-> DOB_age(made, t)]
    /\ UNCHANGED <<today, call, made, beyondDates>>

DatesNext ==
    \/ NewRange
    \/ RangeFromDict
    \/ FromYearsRange
    \/ FromBirthYear
    \/ FromBirthDate
    \/ FromAge
    \/ FromAgeRange
    \/ AskAge

SpecDates == Init /\ [][DatesNext]_vars
(***************************************************************************)
(* Claims C11, C12, C13 and C18: DateRange and DOB                         *)
(***************************************************************************)
BothPresent(r) == Truthy(r.start) /\ Truthy(r.end)

\* The DateRange a call produced: the range itself, or the DOB's date_range.
RangeOf(x) == IF IsDOB(x) THEN x.a["date_range"] ELSE x

\* C11: every DateRange produced by the constructor, DateRange.from_dict,
\* DateRange.from_years_range or DOB.from_age_range with both start and end
\* present has start <= end, and a constructor call given start > end stores
\* the two dates swapped.
C11_StartNotAfterEnd ==
    /\ (/\ call # None
        /\ call.fn \in {"DateRange", "from_dict", "from_years_range", "from_age_range"}
        /\ ~IsExc(made)
        /\ BothPresent(RangeOf(made)))
       => ~DateLess(RangeOf(made).end, RangeOf(made).start)
    /\ (/\ call # None
        /\ call.fn = "DateRange"
        /\ Truthy(call.a) /\ Truthy(call.b)
        /\ DateLess(call.b, call.a))
       => (made.start = call.b /\ made.end = call.a)

\* The constructor was given a start after the end.
C11_Witness ==
    /\ call # None
    /\ call.fn = "DateRange"
    /\ Truthy(call.a) /\ Truthy(call.b)
    /\ DateLess(call.b, call.a)
    /\ made.start = call.b

\* C12 as stated: DateRange.from_years_range(y1, y2) starts on January 1 of
\* y1 and ends on December 31 of y2, for all y1 and y2.
C12_FirstDayToLastDay ==
    (call # None /\ call.fn = "from_years_range" /\ ~IsExc(made))
    => (/\ made.start = Date(call.a.i, 1, 1)
        /\ made.end = Date(call.b.i, 12, 31))

\* C12, amended: DateRange.from_years_range(y1, y2) starts on January 1 of y1
\* and ends on December 31 of y2 when y1 <= y2; when y1 > y2 the constructor
\* swaps the two dates, so the range starts on December 31 of y2 and ends on
\* January 1 of y1. A year outside 1..9999 raises ValueError.
C12_FirstDayToLastDayOrSwapped ==
    (call # None /\ call.fn = "from_years_range")
    => IF call.a.i \notin 1..9999 \/ call.b.i \notin 1..9999
       THEN made = Exc("ValueError")
       ELSE IF call.a.i <= call.b.i
       THEN made.start = Date(call.a.i, 1, 1) /\ made.end = Date(call.b.i, 12, 31)
       ELSE made.start = Date(call.b.i, 12, 31) /\ made.end = Date(call.a.i, 1, 1)

\* from_years_range was given a first year after the second.
C12_Witness ==
    /\ call # None
    /\ call.fn = "from_years_range"
    /\ call.a.i > call.b.i
    /\ IsRange(made)
    /\ made.end = Date(call.a.i, 1, 1)

\* C13 as stated: DOB.from_birth_year(y).age is today.year - y whatever
\* today's month and day.
C13_AgeIsYearDifference ==
    (call # None /\ call.fn = "from_birth_year" /\ age # None)
    => age.is = PyInt(age.on.y - call.a.i)

\* C13, amended: DOB.from_birth_year(y).age is today.year - y from the middle
\* of the year on (July 2, or July 1 when y is a leap year) and one less on
\* the days of the year before it.
C13_AgeByMidYear ==
    (call # None /\ call.fn = "from_birth_year" /\ age # None)
    => LET y == call.a.i
           mid == IF IsLeap(y) THEN Date(y, 7, 1) ELSE Date(y, 7, 2)
       IN  age.is = IF MonthDayLess(age.on, mid) THEN PyInt(age.on.y - y - 1)
                    ELSE PyInt(age.on.y - y)

\* The age of a from_birth_year DOB was asked in the first half of a year.
C13_Witness ==
    /\ call # None
    /\ call.fn = "from_birth_year"
    /\ age # None
    /\ age.on.m < 7
    /\ age.is = PyInt(age.on.y - call.a.i - 1)

\* The call returned a DOB whose date_range is present.
WithRange(x) == IsDOB(x) /\ IsRange(x.a["date_range"])

\* The birth year of the oldest age is a year of the calendar.
AgesInCalendar(t, n1, n2) == t.y - n1 - 1 >= 1 /\ t.y - n2 - 1 >= 1

MaxSourceScalars == 3

\* The values a caller assigns to the scalar attributes of a source: for
\* each attribute a falsy value that is not None, and for most a truthy one.
SourceSamples ==
    {<<"name", PyStr(<<>>)>>, <<"name", PyStr(<<"x">>)>>,
     <<"category", PyStr(<<>>)>>,
     <<"origin_url", PyStr(<<>>)>>,
     <<"domain", PyStr(<<"x", ".", "i", "o">>)>>, <<"domain", PyStr(<<>>)>>,
     <<"sponsored", PyBool(FALSE)>>, <<"sponsored", PyBool(TRUE)>>,
     <<"match", PyInt(0)>>, <<"match", PyFloat(5)>>,
     <<"person_id", PyStr(<<>>)>>,
     <<"valid_since", Midnight>>,
     <<"premium", PyBool(FALSE)>>, <<"premium", PyBool(TRUE)>>,
     <<"source_id", PyStr(<<>>)>>, <<"source_id", PyStr(<<"s", "1">>)>>}

NewSource == NewContainerIn({"Source"})

\* cont.attr = v, for a scalar attribute of the source.
SetSourceAttr ==
    /\ cpc = "open"
    /\ Cardinality({a \in DOMAIN cont.a : cont.a[a] # None}) < MaxSourceScalars
    /\ \E pair \in SourceSamples :
         /\ cont.a[pair[1]] = None
         /\ cont' = [cont EXCEPT !.a[pair[1]] = pair[2]]
    /\ UNCHANGED <<given, base, added, batch, before, raised, listed, asked, cwire, cback,
                   cpc, beyondCont>>

AddSourceField == AddFieldsFrom({NameAl}, 1, 1)

SourceNext == NewSource \/ SetSourceAttr \/ AddSourceField \/ EncodeContainer

\* A caller makes a source, sets its attributes, and encodes it.
SpecSource == Init /\ [][SourceNext]_vars

(***************************************************************************)
(* Claim C14: the keys of Source.to_dict                                   *)
(***************************************************************************)
\* The attributes Source.to_dict writes under "@" + their own name.
SourceNotNoneAttrs ==
    {"name", "category", "origin_url", "domain", "sponsored", "match", "person_id",
     "valid_since"}

\* C14: Source.to_dict emits @name, @category, @origin_url, @domain,
\* @sponsored, @match, @person_id and @valid_since exactly when the attribute
\* is not None (sponsored=False and match=0 are emitted), and emits @premium
\* and @id exactly when premium and source_id are truthy (premium=False is
\* omitted).
C14_SourceKeys ==
    (cpc = "encoded" /\ cont.cls = "Source") =>
        /\ \A attr \in SourceNotNoneAttrs :
              (Key("@", attr) \in DOMAIN cwire.d) <=> (cont.a[attr] # None)
        /\ (Key("@", "premium") \in DOMAIN cwire.d) <=> Truthy(cont.a["premium"])
        /\ (Key("@", "id") \in DOMAIN cwire.d) <=> Truthy(cont.a["source_id"])
        /\ Key("@", "sponsored") \in DOMAIN cwire.d => cwire.d[Key("@", "sponsored")] = cont.a["sponsored"]
        /\ Key("@", "match") \in DOMAIN cwire.d => cwire.d[Key("@", "match")] = cont.a["match"]

\* A source with sponsored=False, match=0 and premium=False was encoded.
C14_Witness ==
    /\ cpc = "encoded"
    /\ cont.cls = "Source"
    /\ cont.a["sponsored"] = PyBool(FALSE)
    /\ cont.a["match"] = PyInt(0)
    /\ cont.a["premium"] = PyBool(FALSE)
    /\ DOMAIN cwire.d = {Key("@", "sponsored"), Key("@", "match")}
(***************************************************************************)
(* FieldCount (available_data.py)                                          *)
(***************************************************************************)
\* FieldCount.children
FieldCount_children ==
    <<"addresses", "ethnicities", "emails", "dobs", "genders", "user_ids",
      "social_profiles", "educations", "jobs", "images", "languages",
      "origin_countries", "names", "phones", "mobile_phones", "landline_phones",
      "relationships", "usernames">>

\* FieldCount(**kw): every counter is the keyword argument given, or None.
FieldCount(kw) ==
    [cls |-> "FieldCount",
     a |-> [child \in Range(FieldCount_children) |->
               IF child \in DOMAIN kw THEN kw[child] ELSE None]]

\* FieldCount.to_dict: the counters that are truthy.
FieldCount_to_dict(x) ==
    LET keep == {child \in Range(FieldCount_children) : Truthy(x.a[child])}
    IN  [k \in {Key("", child) : child \in keep} |-> x.a[k[2]]]

\* FieldCount.from_dict: the keys that are children and whose value's type
\* is int (a bool's type is bool) become the keyword arguments.
FieldCount_from_dict(d) ==
    LET keep == {k \in DOMAIN d : k[1] = "" /\ k[2] \in Range(FieldCount_children)
                                  /\ d[k].t = "int"}
    IN  FieldCount([child \in {k[2] : k \in keep} |-> d[Key("", child)]])

\* The largest number of counters a caller gives to FieldCount(...), and
\* the largest number of keys of the dicts given to FieldCount.from_dict.
MaxCounters == 2

\* The counters a caller sets, and the values given to them.
CounterNames == {"names", "emails", "phones", "jobs"}

CounterValues == {PyInt(0), PyInt(3)}

\* The keys and values of the dicts given to FieldCount.from_dict.
CountKeys == {Key("", "names"), Key("", "emails"), Key("", "bogus"), Key("@", "names")}

CountValues ==
    {PyInt(0), PyInt(2), PyStr(<<"3">>), PyBool(TRUE), PyFloat(15), None}

\* The functions from at most n elements of keys to values.
MapsUpTo(keys, values, n) ==
    UNION {[ks -> values] : ks \in {s \in SUBSET keys : Cardinality(s) <= n}}

\* fc = FieldCount(**kw)
NewFieldCount ==
    /\ fc = None
    /\ fcwire = None
    /\ \E kw \in MapsUpTo(CounterNames, CounterValues, MaxCounters) : fc' = FieldCount(kw)
    /\ UNCHANGED <<fcwire, fcback, beyondCount>>

\* fcwire = fc.to_dict()
EncodeCount ==
    /\ fc # None
    /\ fcwire = None
    /\ fcwire' = PyDict(FieldCount_to_dict(fc))
    /\ UNCHANGED <<fc, fcback, beyondCount>>

\* A dict arrives from the API.
ReceiveCount ==
    /\ fc = None
    /\ fcwire = None
    /\ \E d \in MapsUpTo(CountKeys, CountValues, MaxCounters) : fcwire' = PyDict(d)
    /\ UNCHANGED <<fc, fcback, beyondCount>>

\* fcback = FieldCount.from_dict(fcwire)
DecodeCount ==
    /\ fcwire # None
    /\ fcback = None
    /\ fcback' = FieldCount_from_dict(fcwire.d)
    /\ UNCHANGED <<fc, fcwire, beyondCount>>

CountNext == NewFieldCount \/ EncodeCount \/ ReceiveCount \/ DecodeCount

\* A caller makes a FieldCount, encodes it and decodes the result; or
\* decodes a dict of the API.
SpecCount == Init /\ [][CountNext]_vars

(***************************************************************************)
(* Claim C15: the FieldCount round trip                                    *)
(***************************************************************************)
\* C15: for every FieldCount fc whose counters are integers (0 included) or
\* None, FieldCount.from_dict(fc.to_dict()) has the same value as fc for
\* every recognized counter; and FieldCount.from_dict drops every key that
\* is unrecognized or whose value is not an integer, without raising.
C15_CountRoundTrip ==
    /\ (fc # None /\ fcback # None) =>
          /\ ~IsExc(fcback)
          /\ \A child \in Range(FieldCount_children) : fcback.a[child] = fc.a[child]
    /\ (fc = None /\ fcback # None) =>
          /\ ~IsExc(fcback)
          /\ \A child \in Range(FieldCount_children) :
                fcback.a[child] =
                   IF Key("", child) \in DOMAIN fcwire.d /\ fcwire.d[Key("", child)].t = "int"
                   THEN fcwire.d[Key("", child)] ELSE None

\* The second half of C15 alone: decoding a dict of the API keeps the
\* recognized keys whose value is an integer and drops the others.
C15_DropsUnrecognized ==
    (fc = None /\ fcback # None) =>
          /\ ~IsExc(fcback)
          /\ \A child \in Range(FieldCount_children) :
                fcback.a[child] =
                   IF Key("", child) \in DOMAIN fcwire.d /\ fcwire.d[Key("", child)].t = "int"
                   THEN fcwire.d[Key("", child)] ELSE None

\* The round trip of C15 for counters other than 0.
C15_NonZeroRoundTrip ==
    (fc # None /\ fcback # None) =>
          /\ ~IsExc(fcback)
          /\ \A child \in Range(FieldCount_children) :
                fcback.a[child] = IF fc.a[child] = PyInt(0) THEN None ELSE fc.a[child]
(***************************************************************************)
(* Decoding the dicts of an API response                                   *)
(***************************************************************************)
\* The largest number of unrecognized keys added at one level of a dict.
MaxExtraKeys == 1

GoodDate == PyStr(<<"2", "0", "1", "5", "-", "0", "3", "-", "0", "9">>)

BadDate == PyStr(<<"2", "0", "1", "5", "-", "1", "3", "-", "4", "5">>)

EmptyDate == PyStr(<<>>)

DateTexts == {GoodDate, BadDate, EmptyDate}

\* Keys that no from_dict reads and no constructor names.
UnknownKeys == {Key("@", "new_attr"), Key("", "extra")}

ExtraValues == {PyInt(1), PyList(<<PyStr(<<"x">>)>>)}

\* The unrecognized keys added at one level.
Extras == MapsUpTo(UnknownKeys, ExtraValues, MaxExtraKeys)

OneExtra == Key("@", "new_attr") :> PyInt(1)

\* The dicts that hold key k with one of the values vs, or do not hold it.
Maybe(k, vs) == {EmptyDict} \cup {(k :> v) : v \in vs}

\* The dicts given to DateRange.from_dict.
RangeApiWires ==
    {s @@ e @@ x : s \in Maybe(Key("", "start"), DateTexts),
                   e \in Maybe(Key("", "end"), DateTexts),
                   x \in Extras}

\* The date_range dicts nested in the field dicts.
NestedRanges ==
    {PyDict(Key("", "start") :> GoodDate @@ Key("", "end") :> GoodDate),
     PyDict(Key("", "start") :> GoodDate @@ Key("", "end") :> GoodDate @@ OneExtra),
     PyDict(Key("", "start") :> GoodDate @@ Key("", "end") :> BadDate),
     PyDict(Key("", "start") :> EmptyDate @@ Key("", "end") :> GoodDate)}

\* The "@valid_since" or "@last_seen" of a field dict.
Stamps ==
    Maybe(Key("@", "valid_since"), DateTexts)
    \cup Maybe(Key("@", "last_seen"), {GoodDate, BadDate})

\* What a field dict of cls holds besides.
BaseWire(cls) ==
    CASE cls = "Gender" -> Key("", "content") :> PyStr(<<"m", "a", "l", "e">>)
      [] cls = "Ethnicity" -> Key("", "content") :> PyStr(<<"w", "h", "i", "t", "e">>)
      [] cls = "Name" -> Key("", "first") :> PyStr(<<"A", "l">>)
      [] cls = "Email" -> Key("", "address") :> PyStr(<<"a", "l", "@", "x", ".", "i", "o">>)
      [] OTHER -> EmptyDict

\* The dicts given to cls.from_dict, for a Field variant cls.
FieldApiWires(cls) ==
    {BaseWire(cls) @@ st @@ r @@ x :
        st \in Stamps,
        r \in (IF cls \in {"DOB", "Job", "Education"}
               THEN Maybe(Key("", "date_range"), NestedRanges) ELSE {EmptyDict}),
        x \in Extras}

\* The "names" arrays and the "dob" dicts of the container dicts.
NameArrays ==
    {PyList(<<PyDict(BaseWire("Name"))>>),
     PyList(<<PyDict(BaseWire("Name") @@ OneExtra)>>),
     PyList(<<PyDict(BaseWire("Name")),
              PyDict(BaseWire("Name") @@ Key("@", "last_seen") :> BadDate)>>)}

DobDicts ==
    {PyDict(Key("", "date_range") :> r) : r \in NestedRanges}
    \cup {PyDict(Key("", "date_range") :> r @@ OneExtra) : r \in NestedRanges}

\* The dicts given to cls.from_dict, for a container class cls. Person has
\* no valid_since.
ContainerApiWires(cls) ==
    {n @@ d @@ s @@ x :
        n \in Maybe(Key("", "names"), NameArrays),
        d \in Maybe(Key("", "dob"), DobDicts),
        s \in (IF cls = "Person" THEN {EmptyDict}
               ELSE Maybe(Key("@", "valid_since"), DateTexts)),
        x \in Extras}

\* dgot = DateRange.from_dict(d)
DecodeRangeDict ==
    /\ dwire = None
    /\ \E d \in RangeApiWires :
         /\ dcls' = "DateRange"
         /\ dwire' = PyDict(d)
         /\ dgot' = DateRange_from_dict(PyDict(d))
    /\ UNCHANGED beyondDecode

\* dgot = cls.from_dict(d), for a Field variant cls
DecodeFieldDict ==
    /\ dwire = None
    /\ \E cls \in FieldClasses :
         \E d \in FieldApiWires(cls) :
            /\ dcls' = cls
            /\ dwire' = PyDict(d)
            /\ dgot' = from_dict(cls, d)
    /\ UNCHANGED beyondDecode

\* dgot = cls.from_dict(d), for a container class cls
DecodeContainerDict ==
    /\ dwire = None
    /\ \E cls \in ContainerClasses :
         \E d \in ContainerApiWires(cls) :
            /\ dcls' = cls
            /\ dwire' = PyDict(d)
            /\ dgot' = from_dict(cls, d)
    /\ UNCHANGED beyondDecode

DecodeNext == DecodeRangeDict \/ DecodeFieldDict \/ DecodeContainerDict

\* A caller decodes one dict of an API response.
SpecDecode == Init /\ [][DecodeNext]_vars

(***************************************************************************)
(* Claims C16 and C17: unrecognized keys and malformed dates               *)
(***************************************************************************)
\* v with the unrecognized keys removed at every level.
RECURSIVE WithoutUnknown(_)
WithoutUnknown(v) ==
    CASE v.t = "dict" -> PyDict([k \in DOMAIN v.d \ UnknownKeys |-> WithoutUnknown(v.d[k])])
      [] v.t = "list" -> PyList([i \in DOMAIN v.l |-> WithoutUnknown(v.l[i])])
      [] OTHER -> v

\* cls.from_dict(d), DateRange included.
ApiDecode(cls, d) ==
    IF cls = "DateRange" THEN DateRange_from_dict(PyDict(d)) ELSE from_dict(cls, d)

\* C16: decoding with from_dict a dict that carries unrecognized keys, at
\* the level of a container, of any Field variant or of a nested DateRange,
\* yields what decoding the dict without those keys yields, and so does not
\* raise where that does not raise.
C16_UnknownKeysIgnored ==
    dwire # None => dgot = ApiDecode(dcls, WithoutUnknown(dwire).d)

\* A person dict with unrecognized keys at its own level, in its dob and in
\* the dob's date_range was decoded to a person with that dob.
C16_Witness ==
    /\ dwire # None
    /\ dcls = "Person"
    /\ DOMAIN dwire.d \cap UnknownKeys # {}
    /\ Key("", "dob") \in DOMAIN dwire.d
    /\ dwire.d[Key("", "dob")] =
          PyDict(Key("", "date_range") :>
                    PyDict(Key("", "start") :> GoodDate @@ Key("", "end") :> GoodDate
                           @@ OneExtra)
                 @@ OneExtra)
    /\ ~IsExc(dgot)
    /\ dgot.one["dob"].a["date_range"] = DateRange(Date(2015, 3, 9), Date(2015, 3, 9))

\* The strings a dict holds where a date or a datetime is expected: under
\* valid_since, last_seen, start and end, at every level.
RECURSIVE DateTextsIn(_)
DateTextsIn(v) ==
    CASE v.t = "dict" ->
            UNION {IF k[2] \in {"valid_since", "last_seen", "start", "end"}
                   THEN {v.d[k]} ELSE DateTextsIn(v.d[k]) : k \in DOMAIN v.d}
      [] v.t = "list" -> UNION {DateTextsIn(v.l[i]) : i \in DOMAIN v.l}
      [] OTHER -> {}

\* s is no date in the format '%Y-%m-%d'.
Malformed(s) == IsExc(Strptime(s))

\* C17: when a dict passed to from_dict holds a malformed date or datetime
\* string at any level, the call raises and returns no object.
C17_MalformedDateRaises ==
    (dwire # None /\ \E s \in DateTextsIn(dwire) : Malformed(s)) => IsExc(dgot)

\* C17 for the malformed strings that are not empty: the call raises
\* ValueError.
C17_NonEmptyMalformedRaises ==
    (dwire # None /\ \E s \in DateTextsIn(dwire) : Malformed(s) /\ s # EmptyDate)
    => dgot = Exc("ValueError")
(***************************************************************************)
(* The `type` of a field and of a relationship                             *)
(***************************************************************************)
\* The largest number of assignments to `type` a caller makes.
MaxAssignments == 2

\* The Field variants that have a `type` attribute.
TypedClasses == {"Name", "Address", "Phone", "Email"}

\* Relationship.types_set
Relationship_types_set ==
    {<<"f", "r", "i", "e", "n", "d">>, <<"f", "a", "m", "i", "l", "y">>,
     <<"w", "o", "r", "k">>, <<"o", "t", "h", "e", "r">>}

Work == PyStr(<<"w", "o", "r", "k">>)

\* The values given as a `type`: None, members of a types_set, a string of
\* no types_set, and a value that is no string.
TypeSamples(cls) ==
    {None, Work, Bogus, PyInt(5)}
    \cup (IF cls \in TypedClasses THEN {ValidType(cls)} ELSE {})

\* fld = cls(type_=v)
NewTyped ==
    /\ fpc = "start"
    /\ \E cls \in TypedClasses :
         \E kw \in {[type_ |-> v] : v \in TypeSamples(cls)} :
            /\ fld' = Construct(cls, kw)
            /\ args' = [cls |-> cls, kw |-> kw]
    /\ fpc' = "built"
    /\ UNCHANGED <<wire, back, other, wire2, eqres, beyondField>>

\* fld = cls.from_dict({"@type": v})
DecodeTyped ==
    /\ fpc = "start"
    /\ \E cls \in TypedClasses :
         \E d \in {Key("@", "type") :> v : v \in TypeSamples(cls)} :
            /\ fld' = Field_from_dict(cls, d)
            /\ wire' = d
    /\ fpc' = "built"
    /\ UNCHANGED <<args, back, other, wire2, eqres, beyondField>>

\* fld.type = v
AssignType ==
    /\ fpc = "built"
    /\ Len(assigned) < MaxAssignments
    /\ \E v \in TypeSamples(fld.cls) :
         /\ fld' = [fld EXCEPT !.a["type"] = StoredValue(fld.cls, "type", v)]
         /\ assigned' = Append(assigned, v)
    /\ UNCHANGED <<args, wire, back, other, wire2, eqres, fpc, contVars, dateVars, countVars,
                   decodeVars, requestVars, ownerVars>>

TypeNext == NewTyped \/ DecodeTyped \/ AssignType

\* A caller makes or decodes a field with a `type`, then assigns to the type.
SpecType == Init /\ [][TypeNext]_vars

\* cont = Relationship(type_=v)
NewRelationship ==
    /\ cpc = "start"
    /\ \E kw \in {[type_ |-> v] : v \in TypeSamples("Relationship")} :
         /\ cont' = NewContainerOf("Relationship", <<>>, kw)
         /\ base' = NewContainerOf("Relationship", <<>>, kw)
    /\ cpc' = "open"
    /\ UNCHANGED <<given, added, batch, before, raised, listed, asked, cwire, cback, beyondCont>>

\* cont = Relationship.from_dict({"@type": v})
DecodeRelationship ==
    /\ cpc = "start"
    /\ \E d \in {Key("@", "type") :> v : v \in TypeSamples("Relationship")} :
         /\ given' = PyDict(d)
         /\ cont' = from_dict("Relationship", d)
         /\ base' = from_dict("Relationship", d)
    /\ cpc' = "open"
    /\ UNCHANGED <<added, batch, before, raised, listed, asked, cwire, cback, beyondCont>>

\* cont.type = v
AssignRelationshipType ==
    /\ cpc = "open"
    /\ Len(assigned) < MaxAssignments
    /\ \E v \in TypeSamples("Relationship") :
         /\ cont' = [cont EXCEPT !.a["type"] = v]
         /\ assigned' = Append(assigned, v)
    /\ UNCHANGED <<given, base, added, batch, before, raised, listed, asked, cwire, cback, cpc,
                   fieldVars, dateVars, countVars, decodeVars, requestVars,
                   ownerVars>>

RelationshipTypeNext ==
    NewRelationship \/ DecodeRelationship \/ AssignRelationshipType \/ EncodeContainer

\* A caller makes or decodes a relationship, assigns to its type, and
\* encodes it.
SpecRelationshipType == Init /\ [][RelationshipTypeNext]_vars

(***************************************************************************)
(* Claims C19 and C20: the stored type                                     *)
(***************************************************************************)
\* v is None or a member of the set of strings.
NoneOrIn(v, set) == v = None \/ (v.t = "str" /\ v.s \in set)

\* C19: for Name, Address, Phone and Email, after construction, after
\* from_dict and after any sequence of assignments to `type`, the stored
\* type is None or a member of the variant's types_set.
C19_FieldTypeValid ==
    fpc = "built" => NoneOrIn(fld.a["type"], types_set(fld.cls))

\* A type of no types_set was assigned to a field that held a valid type,
\* and None is stored.
C19_Witness ==
    /\ fpc = "built"
    /\ Len(assigned) = 2
    /\ assigned[1] = ValidType(fld.cls)
    /\ assigned[2] = Bogus
    /\ fld.a["type"] = None

\* C20: the type of a Relationship is always None or one of friend, family,
\* work, other: after construction with type_, after Relationship.from_dict
\* of a dict with an @type key, and after any assignment to `type`.
C20_RelationshipTypeValid ==
    cpc \in {"open", "encoded"} => NoneOrIn(cont.a["type"], Relationship_types_set)

\* What the code does instead: the type of a Relationship is the value last
\* given, whatever it is.
C20_RelationshipTypeAsGiven ==
    cpc \in {"open", "encoded"} =>
        cont.a["type"] =
           IF assigned # <<>> THEN assigned[Len(assigned)]
           ELSE IF given # None THEN given.d[Key("@", "type")]
           ELSE base.a["type"]
(***************************************************************************)
(* Claim C21: construction without arguments                               *)
(***************************************************************************)
\* C21: every Field variant can be constructed with no arguments:
\* construction does not raise, and every variant-specific and base attribute
\* of the result is None.
C21_NoArguments ==
    (args # None /\ DOMAIN args.kw = {}) =>
        /\ ~IsExc(fld)
        /\ \A attr \in InstAttrs(args.cls) : fld.a[attr] = None

\* C21 for the variants other than Gender and Ethnicity, whose constructors
\* call content.lower() on the None default.
C21_NoArgumentsButContent ==
    (args # None /\ DOMAIN args.kw = {}) =>
        IF args.cls \in {"Gender", "Ethnicity"} THEN fld = Exc("AttributeError")
        ELSE /\ ~IsExc(fld)
             /\ \A attr \in InstAttrs(args.cls) : fld.a[attr] = None

(***************************************************************************)
(* SearchAPIRequest (search.py). A request is [st |-> its settings]; its   *)
(* person is the Person object it was given or made, which the caller      *)
(* holds too.                                                              *)
(***************************************************************************)
\* The class-level defaults of SearchAPIRequest.
default_settings ==
    [api_key |-> PyStr(<<"s", "a", "m", "p", "l", "e", "_", "k", "e", "y">>),
     use_https |-> PyBool(FALSE),
     minimum_probability |-> None,
     show_sources |-> None,
     minimum_match |-> None,
     hide_sponsored |-> None,
     live_feeds |-> None,
     infer_persons |-> None,
     match_requirements |-> None,
     source_category_requirements |-> None]

\* A keyword argument of a call, None when it is not passed.
Arg(kw, k) == IF k \in DOMAIN kw THEN kw[k] ELSE None

\* `v if v is not None else d`
IfNotNone(v, d) == IF v # None THEN v ELSE d

\* The add_fields calls of SearchAPIRequest.__init__, in order: the fields
\* the query arguments stand for, or the exception their making raises.
QueryFields(kw, t) ==
    LET name == IF Truthy(PyOr(PyOr(Arg(kw, "first_name"), Arg(kw, "middle_name")),
                               Arg(kw, "last_name")))
                THEN <<Construct("Name", [first |-> Arg(kw, "first_name"),
                                          middle |-> Arg(kw, "middle_name"),
                                          last |-> Arg(kw, "last_name")])>>
                ELSE <<>>
        raw_name == IF Truthy(Arg(kw, "raw_name"))
                    THEN <<Construct("Name", [raw |-> Arg(kw, "raw_name")])>> ELSE <<>>
        email == IF Truthy(Arg(kw, "email"))
                 THEN <<Construct("Email", [address |-> Arg(kw, "email")])>> ELSE <<>>
        phone == IF Truthy(PyOr(Arg(kw, "phone"), Arg(kw, "raw_phone")))
                 THEN <<Construct("Phone", [country_code |-> Arg(kw, "country_code"),
                                            number |-> Arg(kw, "phone"),
                                            raw |-> Arg(kw, "raw_phone")])>>
                 ELSE <<>>
        username == IF Truthy(Arg(kw, "username"))
                    THEN <<Construct("Username", [content |-> Arg(kw, "username")])>>
                    ELSE <<>>
        address == IF Truthy(PyOr(PyOr(Arg(kw, "country"), Arg(kw, "state")),
                                  Arg(kw, "city")))
                   THEN <<Construct("Address", [country |-> Arg(kw, "country"),
                                                state |-> Arg(kw, "state"),
                                                city |-> Arg(kw, "city")])>>
                   ELSE <<>>
        raw_address == IF Truthy(Arg(kw, "raw_address"))
                       THEN <<Construct("Address", [raw |-> Arg(kw, "raw_address")])>>
                       ELSE <<>>
        dob == IF Arg(kw, "from_age") # None \/ Arg(kw, "to_age") # None
               THEN <<DOB_from_age_range(PyOr(Arg(kw, "from_age"), PyInt(0)).i,
                                         PyOr(Arg(kw, "to_age"), PyInt(1000)).i, t)>>
               ELSE <<>>
    IN  name \o raw_name \o email \o phone \o username \o address \o raw_address \o dob

\* SearchAPIRequest.__init__(person=person, **kw), on the day t: the person
\* as the call leaves it and the settings of the request made. The fields
\* of the query arguments are added to the person in place, and the
\* person's search_pointer is assigned the argument, None when it is not
\* passed. A negative age raises ValueError after the fields before the
\* DOB were added.
SearchAPIRequest(person, kw, t) ==
    LET p == IF person = None THEN NewContainerOf("Person", <<>>, EmptyDict) ELSE person
        fields == QueryFields(kw, t)
        d == default_settings
    IN  IF FirstExc(fields) # None
        THEN [exc |-> FirstExc(fields).exc,
              person |-> add_fields(p, SubSeq(fields, 1, Len(fields) - 1)).obj]
        ELSE [person |-> [add_fields(p, fields).obj EXCEPT !.a["search_pointer"] =
                             Arg(kw, "search_pointer")],
              st |-> [api_key |-> PyOr(Arg(kw, "api_key"), d.api_key),
                      show_sources |-> IfNotNone(Arg(kw, "show_sources"), d.show_sources),
                      live_feeds |-> IfNotNone(Arg(kw, "live_feeds"), d.live_feeds),
                      minimum_match |-> PyOr(Arg(kw, "minimum_match"), d.minimum_match),
                      minimum_probability |->
                          PyOr(Arg(kw, "minimum_probability"), d.minimum_probability),
                      hide_sponsored |->
                          IfNotNone(Arg(kw, "hide_sponsored"), d.hide_sponsored),
                      match_requirements |->
                          PyOr(Arg(kw, "match_requirements"), d.match_requirements),
                      source_category_requirements |->
                          PyOr(Arg(kw, "source_category_requirements"),
                               d.source_category_requirements),
                      use_https |-> IfNotNone(Arg(kw, "use_https"), d.use_https),
                      infer_persons |->
                          IfNotNone(Arg(kw, "infer_persons"), d.infer_persons)]]

\* `type(v) is not float or v > 1 or v < 0`
NotUnitFloat(v) == v.t # "float" \/ v.f > 1 \/ v.f < 0

\* `v not in ("all", "matching", "false", "true", True, False, None)`, the
\* membership being by ==, under which 1 and 0 equal True and False.
NotShowSources(v) ==
    CASE v.t = "none" -> FALSE
      [] v.t = "bool" -> FALSE
      [] v.t = "int" -> v.i \notin {0, 1}
      [] v.t = "float" -> v.f \notin {0, 1}
      [] v.t = "str" -> v.s \notin {<<"a", "l", "l">>,
                                    <<"m", "a", "t", "c", "h", "i", "n", "g">>,
                                    <<"f", "a", "l", "s", "e">>, <<"t", "r", "u", "e">>}
      [] OTHER -> TRUE

\* SearchAPIRequest.validate_query_params: None, or the ValueError raised.
validate_query_params(st, person, strict) ==
    LET bad ==
          \/ Truthy(st.minimum_match) /\ NotUnitFloat(st.minimum_match)
          \/ st.hide_sponsored # None /\ st.hide_sponsored.t # "bool"
          \/ st.infer_persons # None /\ st.infer_persons.t # "bool"
          \/ st.live_feeds # None /\ st.live_feeds.t # "bool"
          \/ st.match_requirements # None /\ st.match_requirements.t # "str"
          \/ st.source_category_requirements # None
                /\ st.source_category_requirements.t # "str"
          \/ NotShowSources(st.show_sources)
          \/ Truthy(st.minimum_probability) /\ NotUnitFloat(st.minimum_probability)
          \/ Person_unsearchable_fields(person) # <<>>
    IN  IF ~Truthy(st.api_key) THEN Exc("ValueError")
        ELSE IF strict /\ bad THEN Exc("ValueError")
        ELSE IF ~Person_is_searchable(person) THEN Exc("ValueError")
        ELSE None

\* SearchAPIRequest.get_search_query: the key, then the person's search
\* pointer if it has one and the person's JSON if not, then the settings
\* that are not None.
get_search_query(st, person) ==
    LET table == [key |-> st.api_key,
                  search_pointer |-> IF Truthy(person.a["search_pointer"])
                                     THEN person.a["search_pointer"] ELSE None,
                  person |-> IF Truthy(person.a["search_pointer"]) THEN None
                             ELSE PyDict(Person_to_dict(person)),
                  minimum_probability |-> st.minimum_probability,
                  minimum_match |-> st.minimum_match,
                  hide_sponsored |-> st.hide_sponsored,
                  infer_persons |-> st.infer_persons,
                  match_requirements |-> st.match_requirements,
                  source_category_requirements |-> st.source_category_requirements,
                  live_feeds |-> st.live_feeds,
                  show_sources |-> st.show_sources]
    IN  [k \in {k \in DOMAIN table : k = "key" \/ table[k] # None} |-> table[k]]

\* What urlopen and the reading of its answer come to: a response, an
\* error the API reports, an HTTP error without a body, no connection.
Replies ==
    {[response |-> "SearchAPIResponse"], Exc("SearchAPIError"), Exc("HTTPError"),
     Exc("URLError")}

\* A send that issues the HTTP request and validates afterwards.
send_HttpFirst(st, person, strict, reply) ==
    LET invalid == validate_query_params(st, person, strict)
    IN  IF invalid # None
        THEN [out |-> invalid, http |-> <<get_search_query(st, person)>>]
        ELSE [out |-> reply, http |-> <<get_search_query(st, person)>>]

\* SearchAPIRequest.send, the API answering with `reply`: what the call
\* returns or raises, and the queries it has posted to the API.
send(st, person, strict, reply) ==
    LET invalid == validate_query_params(st, person, strict)
    IN  IF invalid # None THEN [out |-> invalid, http |-> <<>>]
        ELSE [out |-> reply, http |-> <<get_search_query(st, person)>>]

(***************************************************************************)
(* Requests: making and sending                                            *)
(***************************************************************************)
\* The largest number of fields of the person a caller gives to a request.
MaxRequestFields == 1

\* The fields of the persons given to a request.
RequestFields == {NameAlLi, NameShort, AddressCity, AddressRaw, DobKnown}

\* The query arguments of the requests: none, a first name only, a first
\* and a last name, a raw name, an email, phones, usernames, addresses,
\* ages, a search pointer.
RequestQueries ==
    {EmptyDict,
     [first_name |-> PyStr(<<"A", "l">>)],
     [first_name |-> PyStr(<<"A", "l">>), last_name |-> PyStr(<<"L", "i">>)],
     [raw_name |-> PyStr(<<"A", "l", " ", "L", "i">>)],
     [email |-> PyStr(<<"a", "l", "@", "x", ".", "i", "o">>)],
     [phone |-> PyInt(55512)],
     [phone |-> PyInt(55512), country_code |-> PyInt(1)],
     [username |-> PyStr(<<"a", "b", "c", "d">>)],
     [username |-> PyStr(<<"a", "b">>)],
     [city |-> PyStr(<<"E", "l", "y">>)],
     [raw_address |-> PyStr(<<"1", " ", "E", "l", "m">>)],
     [from_age |-> PyInt(1), to_age |-> PyInt(2)],
     [to_age |-> PyInt(-1)],
     [email |-> PyStr(<<"a", "l", "@", "x", ".", "i", "o">>), to_age |-> PyInt(-1)],
     [search_pointer |-> PyStr(<<"s", "p">>)]}

\* The settings of the requests: none, and valid and invalid ones.
RequestSettings ==
    {EmptyDict,
     [api_key |-> PyStr(<<"k">>)],
     [minimum_match |-> PyFloat(1)],
     [minimum_match |-> PyInt(1)],
     [minimum_probability |-> PyFloat(2)],
     [hide_sponsored |-> PyBool(TRUE)],
     [live_feeds |-> PyStr(<<"n", "o">>)],
     [infer_persons |-> PyInt(0)],
     [match_requirements |-> PyStr(<<"e", "m", "a", "i", "l">>)],
     [source_category_requirements |-> PyInt(1)],
     [show_sources |-> PyStr(<<"a", "l", "l">>)],
     [show_sources |-> PyStr(<<"s", "o", "m", "e">>)],
     [use_https |-> PyBool(TRUE)]}

AddRequestField == AddFieldsFrom(RequestFields, 1, MaxRequestFields)

\* req = SearchAPIRequest(person=cont, **kw), or SearchAPIRequest(**kw) by
\* a caller that has made no person. The person is changed in place.
NewRequest ==
    /\ rpc = "start"
    /\ cpc \in {"start", "open"}
    /\ \E q \in RequestQueries, st \in RequestSettings, t \in {Date(2026, 7, 1)} :
         LET made_ == SearchAPIRequest(cont, q @@ st, t)
         IN  /\ req' = IF IsExc(made_) THEN Exc(made_.exc)
                       ELSE [st |-> made_.st, kw |-> q @@ st]
             /\ rpc' = IF IsExc(made_) THEN "raised" ELSE "built"
             /\ cont' = IF IsExc(made_) /\ cont = None THEN None ELSE made_.person
    /\ found' = cont
    /\ cpc' = "queried"
    /\ UNCHANGED <<given, base, added, batch, before, raised, listed, asked, cwire, cback,
                   sent, outcome, tpc, calls, beyondRequest>>

\* outcome = req.send(strict_validation=strict), the API answering with
\* one of Replies when it is asked.
Send ==
    /\ rpc = "built"
    /\ \E strict \in BOOLEAN, reply \in Replies :
         /\ outcome' = [strict |-> strict, out |-> send(req.st, cont, strict, reply).out]
         /\ sent' = sent \o send(req.st, cont, strict, reply).http
    /\ rpc' = "sent"
    /\ UNCHANGED <<req, found, tpc, calls, contVars, beyondRequest>>

RequestNext == NewPerson \/ DecodePointer \/ AddRequestField \/ NewRequest \/ Send

\* A caller makes a request, from a person of its own or from query
\* arguments alone, and sends it.
SpecRequest == Init /\ [][RequestNext]_vars

(***************************************************************************)
(* Claim C22: validation precedes the HTTP call                            *)
(***************************************************************************)
\* The request sent has insufficient search data.
Insufficient ==
    \/ ~Person_is_searchable(cont)
    \/ outcome.strict /\ Person_unsearchable_fields(cont) # <<>>

\* C22: send on a request whose person is not searchable, or under strict
\* validation holds an unsearchable field, raises ValueError, and no
\* request has been issued to the API.
C22_ValidatedBeforeSent ==
    (rpc = "sent" /\ Insufficient) => (outcome.out = Exc("ValueError") /\ sent = <<>>)

\* A request for a first name alone was sent under strict validation and
\* raised; one with a searchable person reached the API.
C22_Witness ==
    /\ rpc = "sent"
    /\ outcome.strict
    /\ Len(cont.s["names"]) = 1
    /\ cont.s["names"][1].a["last"] = None
    /\ Person_unsearchable_fields(cont) # <<>>
    /\ outcome.out = Exc("ValueError")
    /\ sent = <<>>

(***************************************************************************)
(* Claim C23: dates and datetimes on the wire                              *)
(***************************************************************************)
\* A string YYYY-MM-DD that str_to_datetime and str_to_date accept.
FixedWidthDate(v) ==
    /\ v.t = "str"
    /\ Len(v.s) = 10
    /\ ~IsExc(str_to_datetime(v))
    /\ ~IsExc(str_to_date(v))

\* C23: Field.to_dict encodes every date-valued and datetime-valued
\* attribute (valid_since, last_seen) as a fixed-width date-only string
\* YYYY-MM-DD that str_to_datetime / str_to_date accept on decode.
C23_DateOnlyStrings ==
    (fpc \in {"encoded", "decoded"}) =>
        \A attr \in {"valid_since", "last_seen"} :
            (Key("@", attr) \in DOMAIN wire) => FixedWidthDate(wire[Key("@", attr)])

(***************************************************************************)
(* The searchability of one field                                          *)
(***************************************************************************)
\* utils.STATES, abridged to the codes the model's inputs use.
STATES ==
    (<<"U", "S">> :> {<<"K", "S">>, <<"N", "Y">>})
    @@ (<<"C", "A">> :> {<<"O", "N">>})

\* Address.is_valid_country
Address_is_valid_country(f) ==
    f.a["country"] # None /\ Upper(f.a["country"].s) \in DOMAIN COUNTRIES

\* Address.is_valid_state
Address_is_valid_state(f) ==
    /\ Address_is_valid_country(f)
    /\ Upper(f.a["country"].s) \in DOMAIN STATES
    /\ f.a["state"] # None
    /\ Upper(f.a["state"].s) \in STATES[Upper(f.a["country"].s)]

\* The keyword arguments of the addresses asked: a raw address or an empty
\* one, a country that is a code (in either case) or is none, a state of
\* the country or of none, a city, a zip code.
AddressKwargs ==
    {r @@ c @@ s @@ t @@ z :
        r \in Maybe("raw", {PyStr(<<"1", " ", "E", "l", "m">>), PyStr(<<>>)}),
        c \in Maybe("country", {PyStr(<<"U", "S">>), PyStr(<<"c", "a">>), PyStr(<<"F", "R">>),
                                PyStr(<<"Z", "Z">>)}),
        s \in Maybe("state", {PyStr(<<"K", "S">>), PyStr(<<"X", "X">>)}),
        t \in Maybe("city", {PyStr(<<"E", "l", "y">>)}),
        z \in Maybe("zip_code", {PyStr(<<"1">>)})}

\* The keyword arguments of the names asked: first and last names of one
\* and two letters, with characters that are no letters, and raw names.
NameKwargs ==
    {f @@ l @@ r :
        f \in Maybe("first", {PyStr(<<"A">>), PyStr(<<"A", "l">>), PyStr(<<"A", "1">>),
                              PyStr(<<"A", "-", "l">>)}),
        l \in Maybe("last", {PyStr(<<"L">>), PyStr(<<"L", "i">>)}),
        r \in Maybe("raw", {PyStr(<<"A", "l", " ", "L", "i">>), PyStr(<<"A", " ", "L", "i">>),
                            PyStr(<<"A", "l", "1", "2">>), PyStr(<<>>)})}

\* fld = Address(**kw)
NewAddress ==
    /\ fpc = "start"
    /\ \E kw \in AddressKwargs :
         /\ fld' = Construct("Address", kw)
         /\ args' = [cls |-> "Address", kw |-> kw]
    /\ fpc' = "built"
    /\ UNCHANGED <<wire, back, other, wire2, eqres, beyondField>>

\* fld = Name(**kw)
NewName ==
    /\ fpc = "start"
    /\ \E kw \in NameKwargs :
         /\ fld' = Construct("Name", kw)
         /\ args' = [cls |-> "Name", kw |-> kw]
    /\ fpc' = "built"
    /\ UNCHANGED <<wire, back, other, wire2, eqres, beyondField>>

\* asked = fld.is_searchable
AskField ==
    /\ fpc = "built"
    /\ asked' = is_searchable(fld)
    /\ fpc' = "asked"
    /\ UNCHANGED <<fld, args, wire, back, other, wire2, eqres, cont, given, base, added,
                   batch, before, raised, listed, cwire, cback, cpc, dateVars, countVars,
                   decodeVars, assigned, requestVars, ownerVars>>

RuleNext == NewAddress \/ NewName \/ AskField

\* A caller makes an address or a name and asks whether it is searchable.
SpecRule == Init /\ [][RuleNext]_vars

(***************************************************************************)
(* Claim C24: the searchability of an address                              *)
(***************************************************************************)
\* An attribute that is present: neither None nor empty.
Present(f, attr) == f.a[attr] # None /\ f.a[attr] # PyStr(<<>>)

\* C24: Address.is_searchable is true exactly when raw is present, or the
\* country is a valid country code and (zip_code is present, or the state
\* is valid for that country, or the state is absent); an address with
\* only a city, only a state, or an invalid country and no raw is not
\* searchable.
C24_ValidCountryRule ==
    (fpc = "asked" /\ fld.cls = "Address") =>
        (asked = PyBool(\/ Present(fld, "raw")
                        \/ /\ Address_is_valid_country(fld)
                           /\ \/ Present(fld, "zip_code")
                              \/ Address_is_valid_state(fld)
                              \/ ~Present(fld, "state")))

\* C24 as the code has it: Address.is_searchable is true exactly when raw,
\* country, state or city is present, whether or not the country or the
\* state is a valid code; the zip code plays no part. An address with only
\* a city or only a state is searchable, one with only a zip code is not.
C24_AnyOfFourPresent ==
    (fpc = "asked" /\ fld.cls = "Address") =>
        (asked = PyBool(\/ Present(fld, "raw")
                        \/ Present(fld, "country")
                        \/ Present(fld, "state")
                        \/ Present(fld, "city")))

\* An address with only a city was asked and is searchable.
C24_Witness ==
    /\ fpc = "asked"
    /\ fld.cls = "Address"
    /\ DOMAIN args.kw = {"city"}
    /\ asked = PyBool(TRUE)

(***************************************************************************)
(* Claim C25: the searchability of a name                                  *)
(***************************************************************************)
\* The number of alphabetic characters of an attribute, none when absent.
Letters(f, attr) ==
    IF f.a[attr] = None THEN 0
    ELSE Cardinality({i \in DOMAIN f.a[attr].s : IsAlpha(f.a[attr].s[i])})

\* C25: Name.is_searchable is true exactly when first and last each hold at
\* least 2 alphabetic characters or raw holds at least 4, counting only
\* alphabetic characters and treating absent parts as empty.
C25_TwoAndTwoOrFour ==
    (fpc = "asked" /\ fld.cls = "Name") =>
        (asked = PyBool(\/ Letters(fld, "first") >= 2 /\ Letters(fld, "last") >= 2
                        \/ Letters(fld, "raw") >= 4))

\* first='A', last='Li' with no raw was asked and is not searchable.
C25_Witness ==
    /\ fpc = "asked"
    /\ fld.cls = "Name"
    /\ args.kw = [first |-> PyStr(<<"A">>), last |-> PyStr(<<"L", "i">>)]
    /\ asked = PyBool(FALSE)

(***************************************************************************)
(* Field objects and the containers that hold them. Here a field object    *)
(* carries its identity, [cls, a, id], so that one object held in two      *)
(* places can be told from two equal objects.                              *)
(***************************************************************************)
\* The largest number of field objects made.
MaxObjects == 2

\* The largest number of container instances made.
MaxBoxes == 2

\* The largest number of fields one container is given.
MaxHeld == 2

\* The fields whose objects are made.
ObjectSamples == {NameAlLi, EmailAl, GenderMale}

\* The sequences of at most n of the objects made.
ObjectSeqs(n) == SeqsUpTo(Range(heap), n)

\* f = cls(**kw): a new object.
MakeField ==
    /\ Len(heap) < MaxObjects
    /\ \E f \in ObjectSamples :
         heap' = Append(heap, [cls |-> f.cls, a |-> f.a, id |-> Len(heap) + 1])
    /\ UNCHANGED <<boxes, beyondOwner>>

\* cls(fields=fields): a new container that holds the objects it is given.
MakeContainer ==
    /\ Len(boxes) < MaxBoxes
    /\ \E cls \in ContainerClasses, fields \in ObjectSeqs(MaxHeld) :
         /\ ~IsExc(NewContainerOf(cls, fields, EmptyDict))
         /\ boxes' = Append(boxes, NewContainerOf(cls, fields, EmptyDict))
    /\ UNCHANGED <<heap, beyondOwner>>

\* boxes[i].add_fields(fields): the objects given are appended to the slots,
\* or assigned to them, as they are.
AddObjects ==
    /\ \E i \in DOMAIN boxes, fields \in ObjectSeqs(MaxHeld) \ {<<>>} :
         /\ Held(boxes[i]) + Len(fields) <= MaxHeld
         /\ boxes' = [boxes EXCEPT ![i] = add_fields(@, fields).obj]
    /\ UNCHANGED <<heap, beyondOwner>>

OwnerNext == MakeField \/ MakeContainer \/ AddObjects

\* Callers make field objects and containers, and give the objects to the
\* containers at construction or later.
SpecOwner == Init /\ [][OwnerNext]_vars

(***************************************************************************)
(* Claim C26: one container per field object                               *)
(***************************************************************************)
\* The places that hold a field object: <<container, position in its
\* all_fields>>.
Holders(id) ==
    {<<i, n>> \in (DOMAIN boxes) \X (1..MaxHeld) :
        n <= Held(boxes[i]) /\ all_fields(boxes[i])[n].id = id}

\* C26: after any sequence of container constructions and add_fields
\* calls, no field object is held in the slots of two container instances,
\* and none is held twice in one container.
C26_OneHolder ==
    \A k \in DOMAIN heap : Cardinality(Holders(k)) <= 1

(***************************************************************************)
(* Claim C27: add_fields keeps a person searchable                         *)
(***************************************************************************)
\* C27: Person.is_searchable is monotone under add_fields: a person that
\* was searchable when a successful add_fields call found it is searchable
\* after the call, and so after any sequence of such calls.
C27_StaysSearchable ==
    (cpc = "open" /\ before # None /\ raised = None /\ Person_is_searchable(before)) =>
        Person_is_searchable(cont)

\* A searchable person was given one more field, an unsearchable name, and
\* holds both.
C27_Witness ==
    /\ cpc = "open"
    /\ before # None
    /\ raised = None
    /\ Person_is_searchable(before)
    /\ batch = <<NameShort>>
    /\ cont.s["names"] = <<NameAlLi, NameShort>>

(***************************************************************************)
(* Claim C28: empty unsearchable_fields and is_searchable                  *)
(***************************************************************************)
\* The person asked has no search pointer, and unsearchable_fields is empty.
NothingUnsearchable ==
    /\ cpc = "asked"
    /\ ~Truthy(cont.a["search_pointer"])
    /\ asked.unsearchable = <<>>

\* C28: for a person without a search_pointer that holds at least one
\* name, email, phone, username, user_id, url or address: if
\* unsearchable_fields is empty then is_searchable is true.
C28_NoGap ==
    (NothingUnsearchable /\ (OwnRuleFields(cont) # {} \/ cont.s["addresses"] # <<>>)) =>
        asked.searchable

\* C28 with the addresses apart: if unsearchable_fields is empty, a person
\* without a search_pointer that holds a name, email, phone, username,
\* user_id or url is searchable, and one that holds addresses only is
\* searchable exactly when one of them has a raw address or a city, a
\* street and a house.
C28_NoGapButAddresses ==
    NothingUnsearchable =>
        /\ OwnRuleFields(cont) # {} => asked.searchable
        /\ OwnRuleFields(cont) = {} =>
              (asked.searchable <=> \E f \in Elements(cont.s["addresses"]) : SoleRule(f))

\* A person that holds an address with only a city was asked: no field is
\* unsearchable and the person is not searchable.
C28_Witness ==
    /\ NothingUnsearchable
    /\ cont.s["addresses"] = <<AddressCity>>
    /\ OwnRuleFields(cont) = {}
    /\ ~asked.searchable

(***************************************************************************)
(* Claim C29: the search pointer of a caller's person                      *)
(***************************************************************************)
\* A request was made from a caller's person and no search_pointer argument.
FromPersonAlone ==
    /\ rpc \in {"built", "sent"}
    /\ found # None
    /\ "search_pointer" \notin DOMAIN req.kw

\* C29: constructing a SearchAPIRequest from a caller-supplied Person
\* without a search_pointer argument leaves the person's search_pointer
\* unchanged.
C29_PointerKept ==
    FromPersonAlone =>
        cont.a["search_pointer"] = found.a["search_pointer"]

(***************************************************************************)
(* send_async: the thread it starts and the caller that goes on            *)
(* The thread is [at |-> its position, strict |-> strict_validation,       *)
(* cb |-> what the callback does, val |-> the value it holds]. Each step   *)
(* of the thread reads the request and the person as they are then.        *)
(***************************************************************************)
\* The largest number of fields of a person that the caller adds to while
\* the thread runs.
MaxRaceFields == 2

\* The callbacks: one that returns, one that raises an Exception.
Callbacks == {"returns", "raises"}

\* req.send_async(callback, strict_validation=strict): the thread is
\* started and the call returns.
SendAsync ==
    /\ rpc = "built"
    /\ \E strict \in BOOLEAN, cb \in Callbacks :
         tpc' = [at |-> "started", strict |-> strict, cb |-> cb, val |-> None]
    /\ rpc' = "async"
    /\ UNCHANGED <<req, found, sent, outcome, calls, contVars, beyondRequest>>

\* The thread, in send: self.validate_query_params(strict=strict_validation)
ThreadValidate ==
    /\ tpc.at = "started"
    /\ tpc' = IF validate_query_params(req.st, cont, tpc.strict) # None
              THEN [tpc EXCEPT !.at = "raised",
                               !.val = validate_query_params(req.st, cont, tpc.strict)]
              ELSE [tpc EXCEPT !.at = "validated"]
    /\ UNCHANGED <<req, found, sent, outcome, rpc, calls, contVars, beyondRequest>>

\* The thread, in send: query = self.get_search_query()
ThreadQuery ==
    /\ tpc.at = "validated"
    /\ tpc' = [tpc EXCEPT !.at = "queried", !.val = get_search_query(req.st, cont)]
    /\ UNCHANGED <<req, found, sent, outcome, rpc, calls, contVars, beyondRequest>>

\* The thread, in send: urlopen(request) and what follows it.
ThreadOpen ==
    /\ tpc.at = "queried"
    /\ sent' = Append(sent, tpc.val)
    /\ \E reply \in Replies :
         tpc' = [tpc EXCEPT !.at = IF IsExc(reply) THEN "raised" ELSE "returned",
                            !.val = reply]
    /\ UNCHANGED <<req, found, outcome, rpc, calls, contVars, beyondRequest>>

\* The thread, in the try block: callback(response=response). An Exception
\* the callback raises is caught by the except clause of the same try.
CallbackResponse ==
    /\ tpc.at = "returned"
    /\ calls' = Append(calls, [response |-> tpc.val, error |-> None])
    /\ tpc' = IF tpc.cb = "raises"
              THEN [tpc EXCEPT !.at = "raised", !.val = Exc("CallbackError")]
              ELSE [tpc EXCEPT !.at = "done"]
    /\ UNCHANGED <<req, found, sent, outcome, rpc, contVars, beyondRequest>>

\* The thread, in the except clause: callback(error=e). An exception the
\* callback raises here ends the thread.
CallbackError ==
    /\ tpc.at = "raised"
    /\ calls' = Append(calls, [response |-> None, error |-> tpc.val])
    /\ tpc' = [tpc EXCEPT !.at = IF tpc.cb = "raises" THEN "died" ELSE "done"]
    /\ UNCHANGED <<req, found, sent, outcome, rpc, contVars, beyondRequest>>

\* The caller, while the thread runs: req.person.add_fields([f])
RacingAdd ==
    /\ rpc = "async"
    /\ tpc.at \notin {"done", "died"}
    /\ Held(cont) < MaxRaceFields
    /\ \E f \in RequestFields : cont' = add_fields(cont, <<f>>).obj
    /\ UNCHANGED <<given, base, added, batch, before, raised, listed, asked, cwire, cback,
                   cpc, requestVars, beyondRequest>>

AsyncNext ==
    \/ NewPerson \/ DecodePointer \/ AddRequestField \/ NewRequest
    \/ SendAsync \/ ThreadValidate \/ ThreadQuery \/ ThreadOpen
    \/ CallbackResponse \/ CallbackError \/ RacingAdd

\* A caller makes a request and sends it asynchronously; the thread and
\* the caller then run in any order.
SpecAsync == Init /\ [][AsyncNext]_vars

(***************************************************************************)
(* Claim C30: the callback of send_async                                   *)
(***************************************************************************)
\* C30: for every call of send_async, in every interleaving with the
\* caller, the callback is invoked exactly once, with the response when
\* send succeeds and with the error when send raises: never twice, and
\* once when the thread has ended; send_async raises nothing to its caller.
C30_CalledOnce ==
    /\ Len(calls) <= 1
    /\ tpc.at \in {"done", "died"} =>
          /\ Len(calls) = 1
          /\ (calls[1].response = None) # (calls[1].error = None)
    /\ rpc = "async" => outcome = None
=============================================================================
